---- MODULE Spec2Model ----
(***************************************************************************)
(* A model of the notion-to-ssg synchronization engine (src/src/index.js,  *)
(* the two-pass exporter): configuration validation, pass 1 (enumeration   *)
(* and the page map), pass 2 (cleaning, page writing, image caching) and   *)
(* the terminal states of one call of exportNotionToSSG.                   *)
(*                                                                         *)
(* Strings the code computes with (titles, page ids, slugs) are sequences  *)
(* of one-character strings; URLs, file names and paths are records naming *)
(* the parts the code's regular expressions and path operations read.      *)
(***************************************************************************)
EXTENDS Integers, Sequences, FiniteSets, TLC

\* ------------------------------------------------------------------ bounds

\* How many injected failures (remote, download, conversion, filesystem) one
\* behaviour may contain.
MaxFaults == 1

\* How many times exportNotionToSSG is called, one call after the other.
MaxRuns == 2

\* The most pages a database lists, and the most one response holds, when
\* the listing loop is applied on its own.
MaxListed == 4

MaxPageSize == 2

\* ------------------------------------------------------------ small helpers

Range(s) == { s[k] : k \in 1..Len(s) }

\* s without the elements that are in drop
SeqFilter(s, drop) ==
    LET Keep(x) == x \notin drop IN SelectSeq(s, Keep)

\* ------------------------------------------------------------------ strings

LowerOf(c) ==
    CASE c = "A" -> "a"
      [] c = "B" -> "b"
      [] OTHER -> c

AlnumChars ==
    {"a", "b", "c", "q", "o", "A", "B", "1", "2",
     "d", "e", "f", "i", "l", "n", "p", "r", "s", "t", "u", "x"}

\* String.prototype.trim
Trim(s) ==
    LET inked == { k \in 1..Len(s) : s[k] # " " }
        first == CHOOSE k \in inked : \A m \in inked : k <= m
        last == CHOOSE k \in inked : \A m \in inked : m <= k
    IN  IF inked = {} THEN <<>> ELSE SubSeq(s, first, last)

\* slug.replace(/\s+/g, "-"): each run of spaces becomes one "-"
CollapseSpaces(s) ==
    LET marked == [k \in 1..Len(s) |->
                     IF s[k] # " " THEN s[k]
                     ELSE IF k > 1 /\ s[k - 1] = " " THEN "" ELSE "-"]
    IN  SeqFilter(marked, {""})

\* slugify's per-character pass followed by its strict filter: the replacement
\* character "-" becomes a space, the characters of `remove` and every other
\* character that is not a letter, a digit or white space are dropped.
SlugChars(s) ==
    LET mapped == [k \in 1..Len(s) |->
                     IF s[k] \in {"-", " "} THEN " "
                     ELSE IF s[k] \in AlnumChars THEN s[k] ELSE ""]
    IN  SeqFilter(mapped, {""})

\* toSlug(str, opts): slugify(String(str || ""), {lower, strict, remove, trim})
toSlug(str, lower) ==
    LET t == CollapseSpaces(Trim(SlugChars(str)))
    IN  IF lower THEN [k \in 1..Len(t) |-> LowerOf(t[k])] ELSE t

\* page.id.replace(/-/g, "")
StripDashes(id) == SeqFilter(id, {"-"})

\* --------------------------------------------------------------------- URLs

\* A URL, a local image path or a permalink: one record shape for all, with
\* the fields a kind does not use left blank.
BlankUrl ==
    [kind |-> "none", host |-> "", form |-> "", id |-> <<>>, loc |-> "",
     ext |-> "", dir |-> "", slug |-> <<>>, idx |-> "", hash |-> "", base |-> ""]

NoUrl == BlankUrl

\* https://www.notion.so/... naming the page with the dash-less identifier id.
\*   form "bare":   https://www.notion.so/<id>
\*   form "ws":     https://www.notion.so/<workspace>/<id>
\*   form "titled": https://www.notion.so/<Title-words>-<id>
PageUrl(form, id) ==
    [BlankUrl EXCEPT !.kind = "page", !.host = "notion", !.form = form, !.id = id]

\* A hosted file: host "notion" stands for the hosts whose name the image
\* test accepts, host "other" for any other host.
AssetUrl(host, loc, ext) ==
    [BlankUrl EXCEPT !.kind = "asset", !.host = host, !.loc = loc, !.ext = ext]

ExternalUrl == [BlankUrl EXCEPT !.kind = "ext", !.host = "other", !.loc = "x"]

\* `/${path.relative(join(cwd, "src"), finalPath)}` with
\* finalPath = join(imagesDir, `${pageSlug}-${imageIndex}-${contentHash}.${ext}`)
LocalImagePath(dir, slug, idx, hash, ext) ==
    [BlankUrl EXCEPT !.kind = "local", !.dir = dir, !.slug = slug, !.idx = idx,
                     !.hash = hash, !.ext = ext]

\* renderPermalink(tpl, {slug}) with tpl = `${basePath}/{slug}/`
renderPermalink(base, slug) ==
    [BlankUrl EXCEPT !.kind = "perm", !.base = base, !.slug = slug]

\* The extensions getImageExtension's pattern accepts.
KnownImageExts == {"jpg", "jpeg", "png", "gif", "webp", "svg"}

\* getImageExtension(url)
getImageExtension(url) == IF url.ext \in KnownImageExts THEN url.ext ELSE "jpg"

\* url.includes("notion") || url.includes("secure.notion-static.com") ||
\* url.includes("s3.us-west")
IsNotionHosted(url) == url.host = "notion"

\* The forms of page URL the link pattern
\*   /https?:\/\/(?:www\.)?notion\.so\/(?:[a-zA-Z0-9-]+\/)?([a-f0-9]{32})/
\* matches: the identifier must follow "notion.so/" or one path segment.
MatchedPageUrlForms == {"bare", "ws"}

\* The identifier the link pattern extracts from url, <<>> for no match.
NotionIdOfUrl(url) ==
    IF url.kind = "page" /\ url.form \in MatchedPageUrlForms THEN url.id ELSE <<>>

\* ------------------------------------------------------------ remote content

\* One link or image of a page's Markdown body, `[alt](url)` or `![alt](url)`.
\* The text between links holds no link syntax and is left out.
Link(alt, url) == [img |-> FALSE, alt |-> alt, url |-> url]

Image(alt, url) == [img |-> TRUE, alt |-> alt, url |-> url]

\* Page identifiers as the API returns them, with dashes.
P1Id == <<"a", "-", "1">>

P2Id == <<"a", "-", "2">>

Q1Id == <<"b", "-", "1">>

\* An identifier no configured source lists.
StrangerId == <<"c", "1">>

\* Hosted images: U1 and U2 serve the same bytes from two locators.
U1 == AssetUrl("notion", "u1", "png")

U2 == AssetUrl("notion", "u2", "png")

U3 == AssetUrl("notion", "u3", "")

ForeignImage == AssetUrl("other", "x", "png")

\* The first 8 hex digits of the MD5 of the bytes a locator serves.
ContentHash(url) ==
    CASE url.kind = "asset" /\ url.loc \in {"u1", "u2"} -> "h1"
      [] url.kind = "asset" -> "h2"
      [] OTHER -> "h3"

LinkToQ1 == Link("a", PageUrl("bare", StripDashes(Q1Id)))

\* The bodies page p1 may have.
BodySet ==
    { <<LinkToQ1>>,
      <<Link("a", PageUrl("ws", StripDashes(P2Id))), Link("b", ExternalUrl)>>,
      <<Link("a", PageUrl("titled", StripDashes(Q1Id)))>>,
      <<Image("a", PageUrl("bare", StripDashes(Q1Id))), LinkToQ1>>,
      <<LinkToQ1, LinkToQ1>>,
      <<Image("a", U1), Image("a", U2)>>,
      <<Image("a", U1), Image("b", U1)>>,
      <<Image("a", ForeignImage), Link("a", PageUrl("bare", StrangerId))>> }

Page(id, title, cover, icon, body) ==
    [id |-> id, title |-> title, cover |-> cover, icon |-> icon, body |-> body]

\* The remote snapshot: the pages each database lists, in listing order.
Snapshot(body1) ==
    [db \in {"db1", "db2"} |->
        IF db = "db1"
        THEN << Page(P1Id, <<"A", " ", "b">>, NoUrl, NoUrl, body1),
                Page(P2Id, <<"c">>, U1, NoUrl, <<Image("a", U3)>>) >>
        ELSE << Page(Q1Id, <<"q">>, NoUrl, U2,
                     <<Link("a", PageUrl("bare", StripDashes(P1Id))),
                       Image("a", U1)>>) >>]

\* A snapshot in which the titles of the two pages of db1, "A b" and "a-b",
\* have the same slug.
TwinSnapshot ==
    [Snapshot(<<LinkToQ1>>) EXCEPT !["db1"][2].title = <<"a", "-", "b">>]

Snapshots == { Snapshot(b) : b \in BodySet } \cup {TwinSnapshot}

\* ------------------------------------------------------------ configuration

\* One entry of config.databases. A missing field is the empty string; the
\* databaseId is the bare identifier (form "id"), a URL that contains it
\* (form "url"), a string holding no identifier (form "invalid") or absent
\* (form "missing").
DbConf(form, db, srcDir, images, clean) ==
    [databaseId |-> [form |-> form, db |-> db],
     srcDir |-> srcDir,
     basePath |-> IF srcDir = "out2" THEN "/two" ELSE "/one",
     layout |-> "post",
     srcDirImages |-> images,
     cleanBeforeSync |-> clean]

DefaultConf(db) == DbConf("id", db, IF db = "db1" THEN "out1" ELSE "out2", "", TRUE)

\* Two valid sources: any assignment of databases, output directories shared
\* or not, dedicated image directory or not, either cleaning policy.
ValidConfigs ==
    { << DbConf("id", d[1], "out1", g1, c1), DbConf("id", d[2], o2, g2, c2) >> :
        d \in { <<"db1", "db2">>, <<"db2", "db1">>, <<"db1", "db1">> },
        o2 \in {"out1", "out2"}, g1 \in {"", "img1"}, g2 \in {"", "img1"},
        c1 \in BOOLEAN, c2 \in BOOLEAN }

\* A source whose databaseId is given as a URL.
UrlConfigs ==
    { << [DefaultConf("db1") EXCEPT !.databaseId.form = "url"], DefaultConf("db2") >>,
      << DefaultConf("db1"), [DefaultConf("db2") EXCEPT !.databaseId.form = "url"] >> }

Defects == {"databaseId", "invalidId", "srcDir", "basePath", "layout"}

Defective(conf, defect) ==
    CASE defect = "databaseId" -> [conf EXCEPT !.databaseId.form = "missing"]
      [] defect = "invalidId" -> [conf EXCEPT !.databaseId.form = "invalid"]
      [] defect = "srcDir" -> [conf EXCEPT !.srcDir = ""]
      [] defect = "basePath" -> [conf EXCEPT !.basePath = ""]
      [] OTHER -> [conf EXCEPT !.layout = ""]

\* One of the two sources lacks a required field.
DefectiveConfigs ==
    { << Defective(DefaultConf("db1"), x), DefaultConf("db2") >> : x \in Defects }
    \cup { << DefaultConf("db1"), Defective(DefaultConf("db2"), x) >> : x \in Defects }

\* The configuration objects: isArray is Array.isArray(config.databases).
Configs ==
    { [databases |-> ds, isArray |-> TRUE] :
        ds \in ValidConfigs \cup UrlConfigs \cup DefectiveConfigs }
    \cup { [databases |-> <<>>, isArray |-> FALSE] }

\* --------------------------------------------------------------- file system

\* A file name: `${slug}.md`, `${slug}-${idx}-${hash}.${ext}`,
\* `temp-${Date.now()}-${idx}.${ext}`, or any other file.
FileName(k, slug, idx, hash, ext) ==
    [k |-> k, slug |-> slug, idx |-> idx, hash |-> hash, ext |-> ext]

MdName(slug) == FileName("md", slug, "", "", "md")

ImageName(slug, idx, hash, ext) == FileName("img", slug, idx, hash, ext)

TempName(idx, ext) == FileName("temp", <<>>, idx, "", ext)

OtherName == FileName("other", <<"n">>, "", "", "txt")

FilePath(dir, name) == [dir |-> dir, name |-> name]

\* The default of dbConf.srcDirImages, "src/images/notion".
DefaultImagesDir == "imgdef"

BlankFront ==
    [layout |-> "", title |-> <<>>, permalink |-> NoUrl, notionPageId |-> <<>>,
     coverImage |-> NoUrl, iconImage |-> NoUrl]

\* What a file holds: front matter and body for a Markdown file.
NoContent == [front |-> BlankFront, body |-> <<>>]

OldContent == [front |-> [BlankFront EXCEPT !.layout = "old"], body |-> <<>>]

\* The disk a run starts from: output of an earlier run against an older
\* snapshot (a page since deleted, a page still listed, an image already
\* stored under the name this run will compute), a file of the user's and a
\* Markdown file in a subdirectory of an output directory.
InitialFiles ==
    { FilePath("out1", MdName(<<"o", "l", "d">>)),
      FilePath("out1", MdName(<<"a", "-", "b">>)),
      FilePath("out1", OtherName),
      FilePath("out1/sub", MdName(<<"o", "l", "d">>)),
      FilePath("out2", MdName(<<"o", "l", "d">>)),
      FilePath("img1", ImageName(<<"o", "l", "d">>, "0", "h2", "jpg")),
      FilePath(DefaultImagesDir, ImageName(<<"c">>, "cover", "h1", "png")) }

InitialDisk ==
    [f \in InitialFiles |-> IF f.name.k = "md" THEN OldContent ELSE NoContent]

\* ------------------------------------------------------ property normalisation

\* The values extractPropValue returns: null, a string (s, its characters),
\* a number, a boolean, or a list (items).
JsNull == [k |-> "null", s |-> <<>>, items |-> <<>>]

JsStr(s) == [k |-> "str", s |-> s, items |-> <<>>]

JsNum == [k |-> "num", s |-> <<"1">>, items |-> <<>>]

JsBool(b) == [k |-> "bool", s |-> IF b THEN <<"t">> ELSE <<"f">>, items |-> <<>>]

JsList(items) == [k |-> "list", s |-> <<>>, items |-> items]

\* How a call ends: it returns val, or it throws a TypeError.
Returned(val) == [threw |-> FALSE, val |-> val]

Thrown == [threw |-> TRUE, val |-> JsNull]

\* A property value as the API delivers it or as a malformed response may
\* hold it. type is prop.type ("" when absent); shape says what the payload
\* field named after the type holds:
\*   "null"    the property itself is null
\*   "absent"  the payload field is null or missing
\*   "scalar"  a string, number or boolean (v; for a string its characters)
\*   "object"  an object: sub is its own type tag (formula, rollup), v the
\*             inner value read from it (name, start, string, number), <<>>
\*             when that is missing
\*   "list"    an array, items naming the kind of each element
\*   "notlist" a truthy value that is no array
Prop(type, shape, sub, v, items) ==
    [type |-> type, shape |-> shape, sub |-> sub, v |-> v, items |-> items]

\* What the element kinds of the array payloads become; "" is a falsy value
\* (null, undefined), "!" a property read on null or undefined.
\*   rich text: t.plain_text || ""
RichTextItem(e) ==
    CASE e = "text" -> "x"
      [] e = "blank" -> ""
      [] OTHER -> "!"

\*   multi_select: m.name
OptionItem(e) == IF e = "named" THEN "n" ELSE "!"

\*   people: p?.name || p?.person?.email || p?.id
PeopleItem(e) ==
    CASE e = "named" -> "n"
      [] e = "email" -> "e"
      [] e = "id" -> "i"
      [] OTHER -> ""

\*   files: f.file.url, f.external.url or null by f.type
FileItem(e) ==
    CASE e \in {"file", "external"} -> "u"
      [] e = "other" -> ""
      [] OTHER -> "!"

\*   relation: r.id
RelationItem(e) ==
    CASE e = "id" -> "i"
      [] e = "noId" -> ""
      [] OTHER -> "!"

\* array.map(f).filter(Boolean) over the element kinds, tokens[e] being what
\* f yields for kind e: throws when f throws for an element.
MapFilter(items, tokens) ==
    LET Kept(e) == tokens[e] # ""
    IN  IF \E n \in 1..Len(items) : tokens[items[n]] = "!" THEN Thrown
        ELSE Returned(JsList([n \in 1..Len(SelectSeq(items, Kept)) |->
                                 tokens[SelectSeq(items, Kept)[n]]]))

\* normalizeRichText(rtArray)
normalizeRichText(p) ==
    LET Texted(e) == RichTextItem(e) = "x"
    IN  IF p.shape # "list" THEN Returned(JsStr(<<>>))
        ELSE IF \E n \in 1..Len(p.items) : RichTextItem(p.items[n]) = "!"
             THEN Thrown
             ELSE Returned(JsStr([n \in 1..Len(SelectSeq(p.items, Texted)) |-> "x"]))

\* normalizePeople(peopleArray)
normalizePeople(p) ==
    IF p.shape # "list" THEN Returned(JsList(<<>>))
    ELSE MapFilter(p.items, [e \in Range(p.items) |-> PeopleItem(e)])

\* normalizeFiles(files)
normalizeFiles(p) ==
    IF p.shape # "list" THEN Returned(JsList(<<>>))
    ELSE MapFilter(p.items, [e \in Range(p.items) |-> FileItem(e)])

\* normalizeRelation(rel)
normalizeRelation(p) ==
    IF p.shape # "list" THEN Returned(JsList(<<>>))
    ELSE MapFilter(p.items, [e \in Range(p.items) |-> RelationItem(e)])

\* x?.inner ?? null, for the payloads read through an inner field
\* (select.name, status.name, date.start)
InnerOrNull(p) ==
    IF p.shape = "object" /\ p.v # <<>> THEN Returned(JsStr(p.v))
    ELSE Returned(JsNull)

\* x ?? null, for the payloads that are the value (url, email, phone_number,
\* number)
ValueOrNull(p) ==
    IF p.shape = "scalar"
    THEN Returned(IF p.type = "number" THEN JsNum ELSE JsStr(p.v))
    ELSE Returned(JsNull)

\* (x.multi_select || []).map((m) => m.name)
OptionNames(p) ==
    CASE p.shape \in {"absent", "null"} -> Returned(JsList(<<>>))
      [] p.shape = "list" ->
           IF \E n \in 1..Len(p.items) : OptionItem(p.items[n]) = "!"
           THEN Thrown
           ELSE Returned(JsList([n \in 1..Len(p.items) |->
                                   OptionItem(p.items[n])]))
      [] OTHER -> Thrown

\* The elements of rollup.array: "~" is an empty string, which the filter
\* v !== null keeps.
RollupItem(e) ==
    CASE e = "number" -> "1"
      [] e = "title" -> "x"
      [] e = "emptyTitle" -> "~"
      [] e \in {"null", "notype", "numberNull", "unknown"} -> ""
      [] OTHER -> "!"

\* normalizeRollup(rollup)
normalizeRollup(p) ==
    CASE p.shape # "object" -> Returned(JsNull)
      [] p.sub = "number" ->
           Returned(IF p.v # <<>> THEN JsNum ELSE JsNull)
      [] p.sub = "date" ->
           Returned(IF p.v # <<>> THEN JsStr(p.v) ELSE JsNull)
      [] p.sub = "array" -> MapFilter(p.items, [e \in Range(p.items) |-> RollupItem(e)])
      [] OTHER -> Returned(JsNull)

\* extractPropValue(prop)
extractPropValue(p) ==
    CASE p.shape = "null" \/ p.type = "" -> Returned(JsNull)
      [] p.type \in {"title", "rich_text"} -> normalizeRichText(p)
      [] p.type \in {"select", "status", "date"} -> InnerOrNull(p)
      [] p.type = "multi_select" -> OptionNames(p)
      [] p.type \in {"url", "email", "phone_number", "number"} -> ValueOrNull(p)
      [] p.type = "checkbox" ->
           Returned(JsBool(p.shape = "scalar" /\ p.v = <<"t">>))
      [] p.type = "people" -> normalizePeople(p)
      [] p.type = "files" -> normalizeFiles(p)
      [] p.type = "relation" -> normalizeRelation(p)
      [] p.type = "formula" ->
           CASE p.shape # "object" -> Returned(JsNull)
             [] p.sub \in {"string", "date"} ->
                  Returned(IF p.v # <<>> THEN JsStr(p.v) ELSE JsNull)
             [] p.sub = "number" ->
                  Returned(IF p.v # <<>> THEN JsNum ELSE JsNull)
             [] p.sub = "boolean" ->
                  Returned(IF p.v # <<>> THEN JsBool(p.v = <<"t">>) ELSE JsNull)
             [] OTHER -> Returned(JsNull)
      [] p.type = "rollup" -> normalizeRollup(p)
      [] OTHER -> Returned(JsNull)

\* Well-formed property values, one or more per supported variant.
SupportedProps ==
    { Prop("title", "list", "", <<>>, <<"text", "text">>),
      Prop("title", "list", "", <<>>, <<>>),
      Prop("rich_text", "list", "", <<>>, <<"text", "blank">>),
      Prop("select", "object", "", <<"n">>, <<>>),
      Prop("select", "absent", "", <<>>, <<>>),
      Prop("status", "object", "", <<"n">>, <<>>),
      Prop("multi_select", "list", "", <<>>, <<"named", "named">>),
      Prop("multi_select", "list", "", <<>>, <<>>),
      Prop("url", "scalar", "", <<"u">>, <<>>),
      Prop("url", "absent", "", <<>>, <<>>),
      Prop("email", "scalar", "", <<"e">>, <<>>),
      Prop("phone_number", "scalar", "", <<"p">>, <<>>),
      Prop("number", "scalar", "", <<"1">>, <<>>),
      Prop("number", "absent", "", <<>>, <<>>),
      Prop("date", "object", "", <<"d">>, <<>>),
      Prop("date", "absent", "", <<>>, <<>>),
      Prop("checkbox", "scalar", "", <<"t">>, <<>>),
      Prop("checkbox", "scalar", "", <<"f">>, <<>>),
      Prop("people", "list", "", <<>>, <<"named", "email", "id">>),
      Prop("people", "list", "", <<>>, <<>>),
      Prop("files", "list", "", <<>>, <<"file", "external">>),
      Prop("files", "list", "", <<>>, <<>>),
      Prop("relation", "list", "", <<>>, <<"id", "id">>),
      Prop("relation", "list", "", <<>>, <<>>),
      Prop("formula", "object", "string", <<"s">>, <<>>),
      Prop("formula", "object", "string", <<>>, <<>>),
      Prop("formula", "object", "number", <<"1">>, <<>>),
      Prop("formula", "object", "boolean", <<"f">>, <<>>),
      Prop("formula", "object", "date", <<"d">>, <<>>),
      Prop("rollup", "object", "number", <<"1">>, <<>>),
      Prop("rollup", "object", "date", <<"d">>, <<>>),
      Prop("rollup", "object", "array", <<>>, <<"number", "title", "emptyTitle">>),
      Prop("rollup", "object", "array", <<>>, <<>>) }

\* Property values of an unknown or missing type, and malformed payloads:
\* a payload that is null, missing or no array, null elements of an array,
\* file and relation entries without their inner object.
MalformedProps ==
    { Prop("", "null", "", <<>>, <<>>),
      Prop("", "absent", "", <<>>, <<>>),
      Prop("created_time", "scalar", "", <<"d">>, <<>>),
      Prop("unique_id", "object", "", <<"1">>, <<>>),
      Prop("title", "absent", "", <<>>, <<>>),
      Prop("title", "list", "", <<>>, <<"text", "null">>),
      Prop("rich_text", "notlist", "", <<>>, <<>>),
      Prop("rich_text", "list", "", <<>>, <<"null">>),
      Prop("select", "scalar", "", <<"n">>, <<>>),
      Prop("status", "object", "", <<>>, <<>>),
      Prop("multi_select", "absent", "", <<>>, <<>>),
      Prop("multi_select", "notlist", "", <<>>, <<>>),
      Prop("multi_select", "list", "", <<>>, <<"named", "null">>),
      Prop("date", "object", "", <<>>, <<>>),
      Prop("checkbox", "absent", "", <<>>, <<>>),
      Prop("people", "absent", "", <<>>, <<>>),
      Prop("people", "notlist", "", <<>>, <<>>),
      Prop("people", "list", "", <<>>, <<"null", "bare", "named">>),
      Prop("files", "absent", "", <<>>, <<>>),
      Prop("files", "list", "", <<>>, <<"other">>),
      Prop("files", "list", "", <<>>, <<"file", "null">>),
      Prop("files", "list", "", <<>>, <<"fileNoInner">>),
      Prop("files", "list", "", <<>>, <<"externalNoInner">>),
      Prop("relation", "absent", "", <<>>, <<>>),
      Prop("relation", "list", "", <<>>, <<"noId">>),
      Prop("relation", "list", "", <<>>, <<"id", "null">>),
      Prop("formula", "absent", "", <<>>, <<>>),
      Prop("formula", "object", "other", <<"s">>, <<>>),
      Prop("rollup", "absent", "", <<>>, <<>>),
      Prop("rollup", "object", "other", <<>>, <<>>),
      Prop("rollup", "object", "array", <<>>, <<"null", "notype", "unknown">>),
      Prop("rollup", "object", "array", <<>>, <<"number", "titleNullElement">>) }

PropSet == SupportedProps \cup MalformedProps

\* The callback of rollup.array.map in normalizeRollup for an element el that
\* is given as a property value: the chain of ifs over el.type.
RollupElement(el) ==
    CASE el.shape = "null" \/ el.type = "" -> Returned(JsNull)
      [] el.type \in {"title", "rich_text"} -> normalizeRichText(el)
      [] el.type = "people" -> normalizePeople(el)
      [] el.type = "relation" -> normalizeRelation(el)
      [] el.type = "files" -> normalizeFiles(el)
      [] el.type = "number" -> ValueOrNull(el)
      [] el.type \in {"date", "select", "status"} -> InnerOrNull(el)
      [] el.type = "rollup" -> normalizeRollup(el)
      [] el.type = "multi_select" -> OptionNames(el)
      [] OTHER -> Returned(JsNull)

\* normalizeRollup for {type: "array", array: els}: the callback for every
\* element, then .filter((v) => v !== null); an exception of the callback
\* leaves the function.
RollupArray(els) ==
    LET vals == [n \in 1..Len(els) |-> RollupElement(els[n])]
        Kept(r) == r.val # JsNull
    IN  IF \E n \in 1..Len(els) : vals[n].threw THEN Thrown
        ELSE Returned(JsList([n \in 1..Len(SelectSeq(vals, Kept)) |->
                                 SelectSeq(vals, Kept)[n].val]))

\* -------------------------------------------------------- slug and permalink

\* getFirstTitleText(page): the title's plain text, trimmed; <<>> stands for
\* null (an empty title yields null).
getFirstTitleText(page) == Trim(page.title)

DefaultSlugConf == [from |-> "title", fallback |-> "id", lower |-> TRUE]

\* String(base) for a value extractPropValue returned: the elements of a
\* list are joined with ","; null and undefined do not get here.
JsString(val) ==
    LET joined[k \in 0..Len(val.items)] ==
            IF k = 0 THEN <<>>
            ELSE joined[k - 1] \o (IF k > 1 THEN <<",">> ELSE <<>>)
                 \o (IF val.items[k] = "~" THEN <<>> ELSE <<val.items[k]>>)
    IN  CASE val.k = "list" -> joined[Len(val.items)]
          [] val.k = "bool" ->
               IF val.s = <<"t">> THEN <<"t", "r", "u", "e">>
               ELSE <<"f", "a", "l", "s", "e">>
          [] OTHER -> val.s

\* !base for a value extractPropValue returned
JsFalsy(val) == val \in {JsNull, JsStr(<<>>), JsBool(FALSE)}

\* page.properties?.[slugConf.from]: the property called from, a null
\* property when the page has none of that name.
PropertyCalled(page, from) ==
    LET name == <<from>>
        at == IF "properties" \in DOMAIN page
              THEN { n \in 1..Len(page.properties) : page.properties[n].name = name }
              ELSE {}
    IN  IF at = {} THEN Prop("", "null", "", <<>>, <<>>)
        ELSE page.properties[CHOOSE n \in at : TRUE].prop

\* Whether buildSlug throws: extractPropValue throws for the chosen property.
buildSlugThrows(page, slugConf) ==
    /\ slugConf.from \notin {"title", "id"}
    /\ extractPropValue(PropertyCalled(page, slugConf.from)).threw

\* buildSlug(page, slugConf), when it does not throw
buildSlug(page, slugConf) ==
    LET chosen == extractPropValue(PropertyCalled(page, slugConf.from)).val
        picked == CASE slugConf.from = "title" -> getFirstTitleText(page)
                    [] slugConf.from = "id" -> page.id
                    [] JsFalsy(chosen) -> <<>>
                    [] OTHER -> JsString(chosen)
        base == IF picked = <<>> \/ Trim(picked) = <<>>
                THEN IF slugConf.fallback = "id" THEN page.id
                     ELSE IF getFirstTitleText(page) # <<>>
                          THEN getFirstTitleText(page) ELSE page.id
                ELSE picked
    IN  toSlug(base, slugConf.lower # FALSE)

\* ------------------------------------------------------- database configuration

\* A detectDbConfig that rejects nothing.
MissingFieldNone(dbConf) == ""

\* The field detectDbConfig rejects dbConf for, "" when it accepts it.
MissingField(dbConf) ==
    CASE dbConf.srcDir = "" -> "srcDir"
      [] dbConf.basePath = "" -> "basePath"
      [] dbConf.layout = "" -> "layout"
      [] OTHER -> ""

\* detectDbConfig(dbConf, dbMeta), for a dbConf it accepts.
detectDbConfig(dbConf) ==
    [dir |-> dbConf.srcDir,
     imagesDir |-> IF dbConf.srcDirImages # "" THEN dbConf.srcDirImages
                   ELSE DefaultImagesDir,
     basePath |-> dbConf.basePath,
     layout |-> dbConf.layout,
     slugConf |-> DefaultSlugConf,
     permalinkTpl |-> dbConf.basePath,
     cleanBeforeSync |-> dbConf.cleanBeforeSync # FALSE]

\* extractDatabaseId(idOrUrl), for a value that holds an identifier: the key
\* under which pass 1 stores the database.
extractDatabaseId(raw) == [form |-> "id", db |-> raw.db]

\* ---------------------------------------------------------------- image cache

\* The outcomes of downloadImage: the response is 200 and is streamed to the
\* file; the response is not 200; the request or the file stream errors.
DownloadOutcomes == {"ok", "http", "error"}

\* What saveNotionImage reads and changes, threaded through the calls of one
\* page: the image cache, the disk, the directories, the log of calls, the
\* number of downloads started and the value returned last.
ImageState(cache, disk, dirs, log) ==
    [cache |-> cache, disk |-> disk, dirs |-> dirs, log |-> log, nd |-> 0,
     ret |-> NoUrl]

\* f with path p removed
RemoveFile(f, p) == [q \in (DOMAIN f) \ {p} |-> f[q]]

\* f with path p holding content c
PutFile(f, p, c) == [q \in (DOMAIN f) \cup {p} |-> IF q = p THEN c ELSE f[q]]

\* One entry of the log of saveNotionImage's calls.
ImageCall(imageUrl, pageSlug, imageIndex, imagesDir, ret, net, out) ==
    [url |-> imageUrl, slug |-> pageSlug, idx |-> imageIndex, dir |-> imagesDir,
     ret |-> ret, net |-> net, out |-> out]

\* A cache hit that answers with the locator instead of the cached path.
CachedImageRaw(st, imageUrl, pageSlug, imageIndex, imagesDir) ==
    [st EXCEPT !.ret = imageUrl,
               !.log = Append(@, [url |-> imageUrl, slug |-> pageSlug,
                                  idx |-> imageIndex, dir |-> imagesDir,
                                  ret |-> imageUrl, net |-> FALSE, out |-> "hit"])]

\* The cache hit of saveNotionImage: imageCache.get(imageUrl), nothing else.
CachedImage(st, imageUrl, pageSlug, imageIndex, imagesDir) ==
    [st EXCEPT !.ret = st.cache[imageUrl],
               !.log = Append(@, ImageCall(imageUrl, pageSlug, imageIndex,
                                           imagesDir, st.cache[imageUrl],
                                           FALSE, "hit"))]

\* The disk after downloadImage ended as out and saveNotionImage dealt with
\* the temporary file: on a 200 the file is dropped when the final name
\* exists and renamed to it otherwise; on another status the file the write
\* stream opened stays; on an error it is unlinked.
DiskAfterDownload(files, out, tempPath, finalPath) ==
    CASE out = "ok" /\ finalPath \in DOMAIN files -> RemoveFile(files, tempPath)
      [] out = "ok" -> PutFile(RemoveFile(files, tempPath), finalPath, NoContent)
      [] out = "http" -> PutFile(files, tempPath, NoContent)
      [] OTHER -> RemoveFile(files, tempPath)

\* The try block of saveNotionImage: ensureDir, the download to a temporary
\* file, the final name from the content hash, the cache entry; the catch
\* returns imageUrl. out says how the download ends.
DownloadedImage(st, imageUrl, pageSlug, imageIndex, imagesDir, out) ==
    LET ext == getImageExtension(imageUrl)
        contentHash == ContentHash(imageUrl)
        relativePath == LocalImagePath(imagesDir, pageSlug, imageIndex,
                                       contentHash, ext)
    IN  [cache |-> IF out = "ok"
                   THEN [u \in (DOMAIN st.cache) \cup {imageUrl} |->
                           IF u = imageUrl THEN relativePath ELSE st.cache[u]]
                   ELSE st.cache,
         disk |-> DiskAfterDownload(
                     st.disk, out,
                     FilePath(imagesDir, TempName(imageIndex, ext)),
                     FilePath(imagesDir,
                              ImageName(pageSlug, imageIndex, contentHash, ext))),
         dirs |-> st.dirs \cup {imagesDir},
         log |-> Append(st.log,
                        ImageCall(imageUrl, pageSlug, imageIndex, imagesDir,
                                  IF out = "ok" THEN relativePath ELSE imageUrl,
                                  TRUE, out)),
         nd |-> st.nd + 1,
         ret |-> IF out = "ok" THEN relativePath ELSE imageUrl]

\* A saveNotionImage that never consults imageCache.
saveNotionImageUncached(st, imageUrl, pageSlug, imageIndex, imagesDir, outs) ==
    DownloadedImage(st, imageUrl, pageSlug, imageIndex, imagesDir,
                    outs[st.nd + 1])

\* saveNotionImage(imageUrl, pageSlug, imageIndex, imagesDir); outs says how
\* the downloads of the page end, in order.
saveNotionImage(st, imageUrl, pageSlug, imageIndex, imagesDir, outs) ==
    IF imageUrl \in DOMAIN st.cache
    THEN CachedImage(st, imageUrl, pageSlug, imageIndex, imagesDir)
    ELSE DownloadedImage(st, imageUrl, pageSlug, imageIndex, imagesDir,
                         outs[st.nd + 1])

\* ------------------------------------------------------------- body rewriting

\* replacements.length as it appears in a file name
IndexName(n) == <<"0", "1", "2", "3">>[n + 1]

\* Whether the text of `original` occurs in the text of element e: the text
\* of a link, "[alt](url)", is also the tail of the image "![alt](url)".
OccursIn(original, e) ==
    /\ e.alt = original.alt
    /\ e.url = original.url
    /\ (original.img => e.img)

\* markdown.replace(original, replacement): the first occurrence of the text
\* `original` is replaced, whichever element holds it.
ReplaceFirst(markdown, original, replacement) ==
    LET hits == { k \in 1..Len(markdown) : OccursIn(original, markdown[k]) }
    IN  IF hits = {} THEN markdown
        ELSE LET k == CHOOSE h \in hits : \A g \in hits : h <= g
             IN  [markdown EXCEPT ![k] = [img |-> markdown[k].img,
                                          alt |-> replacement.alt,
                                          url |-> replacement.url]]

\* for (let i = replacements.length - 1; i >= 0; i--)
\*   markdown = markdown.replace(replacements[i].original, replacements[i].replacement)
ApplyReplacements(markdown, replacements) ==
    LET n == Len(replacements)
        \* the text after the last t replacements of the queue were applied
        applied[t \in 0..n] ==
            IF t = 0 THEN markdown
            ELSE ReplaceFirst(applied[t - 1], replacements[n - t + 1].original,
                              replacements[n - t + 1].replacement)
    IN  applied[n]

\* One match m, the k-th, of the while loop over linkRegex.exec(markdown):
\* acc holds the image state and the replacements queued so far.
ScanMatch(acc, m, k, slug, imagesDir, map, outs) ==
    LET st2 == saveNotionImage(acc.st, m.url, slug,
                               IndexName(Len(acc.replacements)), imagesDir, outs)
        notionId == NotionIdOfUrl(m.url)
    IN  CASE m.img /\ IsNotionHosted(m.url) ->
               [st |-> st2,
                replacements |->
                    Append(acc.replacements,
                           [original |-> m, replacement |-> Image(m.alt, st2.ret),
                            at |-> k, failed |-> st2.ret = m.url])]
          [] ~m.img /\ notionId # <<>> /\ notionId \in DOMAIN map ->
               [st |-> acc.st,
                replacements |->
                    Append(acc.replacements,
                           [original |-> m,
                            replacement |-> Link(m.alt, map[notionId]),
                            at |-> k, failed |-> FALSE])]
          [] OTHER -> acc

\* The while loop over all matches of the body.
ScanLinks(markdown, st, slug, imagesDir, map, outs) ==
    LET scanned[k \in 0..Len(markdown)] ==
            IF k = 0 THEN [st |-> st, replacements |-> <<>>]
            ELSE ScanMatch(scanned[k - 1], markdown[k], k, slug, imagesDir, map,
                           outs)
    IN  scanned[Len(markdown)]

\* The try block of pageBodyMarkdown once the conversion has yielded
\* remoteBody: the scan and the replacements.
RewrittenBody(st, remoteBody, slug, imagesDir, map, outs) ==
    LET Result(r) ==
          [st |-> r.st,
           markdown |-> ApplyReplacements(remoteBody, r.replacements),
           threw |-> FALSE,
           failedAt |-> { r.replacements[n].at :
                            n \in { x \in 1..Len(r.replacements) :
                                      r.replacements[x].failed } }]
    IN  Result(ScanLinks(remoteBody, st, slug, imagesDir, map, outs))

\* A pageBodyMarkdown without its catch: the conversion's exception leaves it.
pageBodyMarkdownUncaught(st, remoteBody, conv, slug, imagesDir, map, outs) ==
    IF conv = "fail"
    THEN [st |-> st, markdown |-> <<>>, threw |-> TRUE, failedAt |-> {}]
    ELSE RewrittenBody(st, remoteBody, slug, imagesDir, map, outs)

\* pageBodyMarkdown(n2m, pageId, slug, imagesDir, pageMap): conv is how the
\* conversion of the page ends, remoteBody what it yields. threw says whether
\* an exception leaves the function: the catch returns "" instead.
pageBodyMarkdown(st, remoteBody, conv, slug, imagesDir, map, outs) ==
    IF conv = "fail"
    THEN [st |-> st, markdown |-> <<>>, threw |-> FALSE, failedAt |-> {}]
    ELSE RewrittenBody(st, remoteBody, slug, imagesDir, map, outs)

\* --------------------------------------------------------------- page writing

\* How many downloads writing the page can start at most: cover, icon and
\* the images of the body.
MaxDownloads(page) ==
    (IF page.cover # NoUrl THEN 1 ELSE 0) + (IF page.icon # NoUrl THEN 1 ELSE 0)
    + Cardinality({ k \in 1..Len(page.body) : page.body[k].img })

\* writePage(n2m, dbCfg, page, pageMap) up to, and without, its final
\* fs.writeFileSync: the front matter, the body, the output path and the
\* image state after the cover, the icon and the body's images.
writePage(st, dbCfg, page, map, conv, outs) ==
    LET slug == buildSlug(page, dbCfg.slugConf)
        permalink == renderPermalink(dbCfg.permalinkTpl, slug)
        title == IF getFirstTitleText(page) # <<>> THEN getFirstTitleText(page)
                 ELSE slug
        st1 == IF page.cover # NoUrl
               THEN saveNotionImage(st, page.cover, slug, "cover",
                                    dbCfg.imagesDir, outs)
               ELSE st
        st2 == IF page.icon # NoUrl
               THEN saveNotionImage(st1, page.icon, slug, "icon",
                                    dbCfg.imagesDir, outs)
               ELSE st1
        front == [layout |-> dbCfg.layout,
                  title |-> title,
                  permalink |-> permalink,
                  notionPageId |-> page.id,
                  coverImage |-> IF page.cover # NoUrl THEN st1.ret ELSE NoUrl,
                  iconImage |-> IF page.icon # NoUrl THEN st2.ret ELSE NoUrl]
        b == pageBodyMarkdown(st2, page.body, conv, slug, dbCfg.imagesDir, map,
                              outs)
    IN  [st |-> b.st,
         threw |-> b.threw,
         content |-> [front |-> front, body |-> b.markdown],
         outPath |-> FilePath(dbCfg.dir, MdName(slug)),
         failedAt |-> b.failedAt]

\* ----------------------------------------------------------------- the state

VARIABLES
    config,        \* the configuration object of the call
    remote,        \* the remote snapshot: database -> pages
    disk,          \* the files: path -> content
    disk0,         \* the files when the call began
    dirs,          \* the directories that exist
    imageCache,    \* the module's imageCache: locator -> local path
    pageMap,       \* pageMap: dash-less page id -> permalink
    allDbPages,    \* allDbPages: key -> {pages, dbCfg}
    results,       \* the results array
    phase,         \* "idle", "pass1", "pass2", "done" (returned), "failed" (threw)
    i,             \* index of the source the current loop is at
    j,             \* pass 2: 0 before the source's cleaning, then the page index
    deletedFiles,  \* pass 2: deletedFiles of the current source
    writtenFiles,  \* pass 2: writtenFiles of the current source
    failure,       \* what made the call throw, "" while nothing did
    faults,        \* failures injected so far
    calls,         \* the remote calls made: metadata, listing, conversion
    imgLog,        \* every call of saveNotionImage, in order
    writes,        \* every fs.writeFileSync of a page that succeeded, in order
    removed,       \* per iteration of the second loop, the files unlinked
    run,           \* the number of the current call of exportNotionToSSG
    prev,          \* how the previous call ended and what this call began with
    pure           \* a function applied on its own: its arguments and result

vars ==
    << config, remote, disk, disk0, dirs, imageCache, pageMap, allDbPages,
       results, phase, i, j, deletedFiles, writtenFiles, failure, faults, calls,
       imgLog, writes, removed, run, prev, pure >>

Sources == 1..Len(config.databases)

EmptyMap == [x \in {} |-> NoUrl]

\* Before the first call: no call has ended, the image cache is empty.
NoPrevious ==
    [returned |-> FALSE, disk |-> InitialDisk, cache |-> EmptyMap,
     sameProcess |-> FALSE]

\* No function is applied on its own.
NoPure == [fn |-> "none"]

\* What a call of exportNotionToSSG starts from, whatever it is given.
InitCall ==
    /\ disk = InitialDisk
    /\ disk0 = InitialDisk
    /\ dirs = { f.dir : f \in InitialFiles }
    /\ imageCache = EmptyMap
    /\ pageMap = EmptyMap
    /\ allDbPages = EmptyMap
    /\ results = <<>>
    /\ phase = "idle"
    /\ i = 0
    /\ j = 0
    /\ deletedFiles = {}
    /\ writtenFiles = {}
    /\ failure = ""
    /\ faults = 0
    /\ calls = {}
    /\ imgLog = <<>>
    /\ writes = <<>>
    /\ removed = <<>>
    /\ run = 1
    /\ prev = NoPrevious

Init ==
    /\ config \in Configs
    /\ remote \in Snapshots
    /\ pure = NoPure
    /\ InitCall

\* ------------------------------------------------------------ the orchestrator

\* A first loop that hands over to the second loop after its first iteration.
AfterPass1StepEarly(k, err) ==
    IF err # "" THEN [phase |-> "failed", i |-> k]
    ELSE [phase |-> "pass2", i |-> 1]

\* A first loop that catches the error of an iteration and goes on.
AfterPass1StepSwallow(k, err) ==
    IF k < Len(config.databases) THEN [phase |-> "pass1", i |-> k + 1]
    ELSE [phase |-> "pass2", i |-> 1]

\* Where the first loop of exportNotionToSSG stands after its iteration for
\* source k: an error leaves the function (nothing catches it), otherwise
\* the loop goes on to the next source, and past the last one the second
\* loop begins at the first source.
AfterPass1Step(k, err) ==
    IF err # "" THEN [phase |-> "failed", i |-> k]
    ELSE IF k < Len(config.databases) THEN [phase |-> "pass1", i |-> k + 1]
    ELSE [phase |-> "pass2", i |-> 1]

\* A second loop that catches the error of an iteration and goes on with the
\* next source.
AfterPass2ErrorConfined(k) ==
    IF k < Len(config.databases) THEN [phase |-> "pass2", i |-> k + 1, j |-> 0]
    ELSE [phase |-> "done", i |-> k, j |-> 0]

\* Where the second loop stands after an error while it is at source k:
\* nothing catches it, the call rejects.
AfterPass2Error(k) == [phase |-> "failed", i |-> k, j |-> j]

\* The token is present; config.databases is validated, then the first loop
\* begins.
StartRun ==
    /\ phase = "idle"
    /\ IF config.isArray
       THEN /\ phase' = (IF Len(config.databases) = 0 THEN "done" ELSE "pass1")
            /\ i' = 1
            /\ failure' = ""
       ELSE /\ phase' = "failed"
            /\ i' = 0
            /\ failure' = "config"
    /\ UNCHANGED << config, remote, disk, disk0, dirs, imageCache, pageMap,
                    allDbPages, results, j, deletedFiles, writtenFiles, faults,
                    calls, imgLog, writes, removed, run, prev, pure >>

\* pageMap after the inner loop of pass 1 over pages, with dbCfg.
MapWithPages(map, pages, dbCfg) ==
    LET ids == { StripDashes(pages[n].id) : n \in 1..Len(pages) }
        last(id) == CHOOSE n \in 1..Len(pages) :
                       /\ StripDashes(pages[n].id) = id
                       /\ \A m \in 1..Len(pages) :
                             StripDashes(pages[m].id) = id => m <= n
    IN  [id \in (DOMAIN map) \cup ids |->
           IF id \in ids
           THEN renderPermalink(dbCfg.permalinkTpl,
                                buildSlug(pages[last(id)], dbCfg.slugConf))
           ELSE map[id]]

\* One iteration of the first loop: the checks, the two remote calls and the
\* insertions for source i. meta and list say how the remote calls end.
Enumerate ==
    /\ phase = "pass1"
    /\ \E meta \in {"ok", "fail"}, list \in {"ok", "fail"} :
        LET dbConf == config.databases[i]
            form == dbConf.databaseId.form
            metaCalled == form \in {"id", "url"}
            listCalled == metaCalled /\ meta = "ok" /\ MissingField(dbConf) = ""
            err == CASE ~metaCalled -> "config"
                     [] meta = "fail" -> "meta"
                     [] MissingField(dbConf) # "" -> "config"
                     [] list = "fail" -> "list"
                     [] OTHER -> ""
            dbId == extractDatabaseId(dbConf.databaseId)
            dbCfg == detectDbConfig(dbConf)
            pages == remote[dbConf.databaseId.db]
            next == AfterPass1Step(i, err)
            injected == IF err \in {"meta", "list"} THEN 1 ELSE 0
        IN  /\ meta = "fail" => metaCalled
            /\ list = "fail" => listCalled
            /\ faults + injected <= MaxFaults
            /\ faults' = faults + injected
            /\ calls' = calls
                 \cup (IF metaCalled
                       THEN {[op |-> "meta", src |-> i, pg |-> 0]} ELSE {})
                 \cup (IF listCalled
                       THEN {[op |-> "list", src |-> i, pg |-> 0]} ELSE {})
            /\ IF err = ""
               THEN /\ allDbPages' =
                         [key \in (DOMAIN allDbPages) \cup {dbId} |->
                            IF key = dbId
                            THEN [pages |-> pages, dbCfg |-> dbCfg]
                            ELSE allDbPages[key]]
                    /\ pageMap' = MapWithPages(pageMap, pages, dbCfg)
               ELSE UNCHANGED << allDbPages, pageMap >>
            /\ failure' = err
            /\ phase' = next.phase
            /\ i' = next.i
    /\ UNCHANGED << config, remote, disk, disk0, dirs, imageCache, results, j,
                    deletedFiles, writtenFiles, imgLog, writes, removed, run,
                    prev, pure >>

\* A cleanDirectory that removes nothing.
CleanTargetsNone(files, dir, mdOnly) == {}

\* cleanDirectory(dir, pattern): the regular files right in dir that match.
CleanTargets(files, dir, mdOnly) ==
    { f \in files : f.dir = dir /\ (mdOnly => f.name.ext = "md") }

\* The head of one iteration of the second loop: the lookup of what pass 1
\* stored, ensureDir twice, and the cleaning. del says whether an unlink fails.
BeginSource ==
    /\ phase = "pass2"
    /\ j = 0
    /\ LET dbConf == config.databases[i]
           dbId == dbConf.databaseId
       IN  IF dbId \notin DOMAIN allDbPages
           THEN \* destructuring undefined throws a TypeError
                /\ failure' = "lookup"
                /\ phase' = AfterPass2Error(i).phase
                /\ i' = AfterPass2Error(i).i
                /\ j' = AfterPass2Error(i).j
                /\ UNCHANGED << disk, dirs, deletedFiles, writtenFiles, faults,
                                removed >>
           ELSE
             LET dbCfg == allDbPages[dbId].dbCfg
                 mdTargets == IF dbCfg.cleanBeforeSync
                              THEN CleanTargets(DOMAIN disk, dbCfg.dir, TRUE)
                              ELSE {}
                 imgTargets == IF dbCfg.cleanBeforeSync /\ dbConf.srcDirImages # ""
                               THEN CleanTargets((DOMAIN disk) \ mdTargets,
                                                 dbCfg.imagesDir, FALSE)
                               ELSE {}
                 targets == mdTargets \cup imgTargets
             IN  \E del \in {"ok", "fail"} :
                   /\ dirs' = dirs \cup {dbCfg.dir, dbCfg.imagesDir}
                   /\ IF del = "ok"
                      THEN /\ disk' = [f \in (DOMAIN disk) \ targets |-> disk[f]]
                           /\ deletedFiles' = targets
                           /\ removed' = Append(removed,
                                 [src |-> i, files |-> (DOMAIN disk) \ (DOMAIN disk')])
                           /\ writtenFiles' = {}
                           /\ j' = 1
                           /\ UNCHANGED << phase, i, failure, faults >>
                      ELSE /\ targets # {}
                           /\ faults < MaxFaults
                           /\ faults' = faults + 1
                           /\ \E gone \in SUBSET targets :
                                /\ gone # targets
                                /\ (gone \cap imgTargets # {} => mdTargets \subseteq gone)
                                /\ disk' = [f \in (DOMAIN disk) \ gone |-> disk[f]]
                                /\ deletedFiles' = gone
                                /\ removed' = Append(removed,
                                      [src |-> i, files |-> gone])
                           /\ writtenFiles' = {}
                           /\ failure' = "fs"
                           /\ phase' = AfterPass2Error(i).phase
                           /\ i' = AfterPass2Error(i).i
                           /\ j' = AfterPass2Error(i).j
    /\ UNCHANGED << config, remote, disk0, imageCache, pageMap, allDbPages,
                    results, calls, imgLog, writes, run, prev, pure >>

\* The pages and configuration the second loop works with at source i.
CurrentEntry == allDbPages[config.databases[i].databaseId]

\* One iteration of the inner loop of pass 2: writePage for page j of source
\* i and writtenFiles.add. conv, outs and wr say how the conversion, the
\* downloads and fs.writeFileSync end.
WritePage ==
    /\ phase = "pass2"
    /\ j >= 1
    /\ j <= Len(CurrentEntry.pages)
    /\ LET page == CurrentEntry.pages[j]
           dbCfg == CurrentEntry.dbCfg
       IN  \E conv \in {"ok", "fail"}, wr \in {"ok", "fail"},
              outs \in [1..MaxDownloads(page) -> DownloadOutcomes] :
            \E r \in { writePage(ImageState(imageCache, disk, dirs, imgLog),
                                 dbCfg, page, pageMap, conv, outs) } :
            LET bad == { n \in DOMAIN outs : outs[n] # "ok" }
                injected == Cardinality(bad)
                            + (IF conv = "fail" THEN 1 ELSE 0)
                            + (IF wr = "fail" THEN 1 ELSE 0)
            IN  /\ \A n \in bad : n <= r.st.nd
                /\ r.threw => wr = "ok"
                /\ faults + injected <= MaxFaults
                /\ faults' = faults + injected
                /\ calls' = calls \cup {[op |-> "convert", src |-> i, pg |-> j]}
                /\ imageCache' = r.st.cache
                /\ imgLog' = r.st.log
                /\ IF r.threw \/ wr = "fail"
                   THEN /\ disk' = r.st.disk
                        /\ dirs' = r.st.dirs \cup (IF r.threw THEN {} ELSE {dbCfg.dir})
                        /\ failure' = (IF r.threw THEN "convert" ELSE "fs")
                        /\ phase' = AfterPass2Error(i).phase
                        /\ i' = AfterPass2Error(i).i
                        /\ j' = AfterPass2Error(i).j
                        /\ UNCHANGED << writtenFiles, writes >>
                   ELSE /\ disk' = PutFile(r.st.disk, r.outPath, r.content)
                        /\ dirs' = r.st.dirs \cup {dbCfg.dir}
                        /\ writtenFiles' = writtenFiles \cup {r.outPath}
                        /\ writes' = Append(writes,
                              [src |-> i, pg |-> j, id |-> page.id,
                               path |-> r.outPath, conv |-> conv,
                               content |-> r.content, failedAt |-> r.failedAt,
                               remoteBody |-> page.body,
                               newFiles |-> (DOMAIN r.st.disk) \ (DOMAIN disk)])
                        /\ j' = j + 1
                        /\ UNCHANGED << phase, i, failure >>
    /\ UNCHANGED << config, remote, disk0, pageMap, allDbPages, results,
                    deletedFiles, removed, run, prev, pure >>

\* A result that reports the deleted files as written and the other way round.
ResultOfSwapped(dbId, pages, written, deleted) ==
    [databaseId |-> dbId, pagesExported |-> Len(pages),
     filesWritten |-> deleted, filesDeleted |-> written]

\* The object results.push receives (databaseTitle, a display string, left
\* out).
ResultOf(dbId, pages, written, deleted) ==
    [databaseId |-> dbId, pagesExported |-> Len(pages),
     filesWritten |-> written, filesDeleted |-> deleted]

\* The tail of one iteration of the second loop: results.push; past the last
\* source the function returns results.
EndSource ==
    /\ phase = "pass2"
    /\ j >= 1
    /\ j = Len(CurrentEntry.pages) + 1
    /\ results' = Append(results,
          ResultOf(config.databases[i].databaseId, CurrentEntry.pages,
                   writtenFiles, deletedFiles))
    /\ IF i < Len(config.databases)
       THEN /\ i' = i + 1
            /\ phase' = "pass2"
       ELSE /\ i' = i
            /\ phase' = "done"
    /\ j' = 0
    /\ UNCHANGED << config, remote, disk, disk0, dirs, imageCache, pageMap,
                    allDbPages, deletedFiles, writtenFiles, failure, faults,
                    calls, imgLog, writes, removed, run, prev, pure >>

Next == StartRun \/ Enumerate \/ BeginSource \/ WritePage \/ EndSource

Spec == Init /\ [][Next]_vars

\* ------------------------------------------------------------- several calls

\* Configurations for several calls: two sources with their own databases
\* and output directories, each with the default or a dedicated image
\* directory (the same one when both have one) and either cleaning policy.
RunConfigs ==
    { [databases |-> << DbConf("id", "db1", "out1", g1, c1),
                        DbConf("id", "db2", "out2", g2, c2) >>,
       isArray |-> TRUE] :
        g1 \in {"", "img1"}, g2 \in {"", "img1"}, c1 \in BOOLEAN, c2 \in BOOLEAN }

\* exportNotionToSSG is called again after a call has returned or thrown,
\* with the same configuration against the same remote snapshot: by the same
\* process, where the module's imageCache is what the calls before left, or
\* by a new process, where it is a new Map. pageMap, allDbPages and results
\* are new in every call.
Reinvoke ==
    /\ phase \in {"done", "failed"}
    /\ run < MaxRuns
    /\ \E sameProcess \in BOOLEAN :
         /\ imageCache' = (IF sameProcess THEN imageCache ELSE EmptyMap)
         /\ prev' = [returned |-> phase = "done", disk |-> disk,
                     cache |-> imageCache', sameProcess |-> sameProcess]
    /\ run' = run + 1
    /\ disk0' = disk
    /\ pageMap' = EmptyMap
    /\ allDbPages' = EmptyMap
    /\ results' = <<>>
    /\ phase' = "idle"
    /\ i' = 0
    /\ j' = 0
    /\ deletedFiles' = {}
    /\ writtenFiles' = {}
    /\ failure' = ""
    /\ calls' = {}
    /\ imgLog' = <<>>
    /\ writes' = <<>>
    /\ removed' = <<>>
    /\ UNCHANGED << config, remote, disk, dirs, faults, pure >>

InitRuns ==
    /\ Init
    /\ config \in RunConfigs

NextRuns == Next \/ Reinvoke

SpecRuns == InitRuns /\ [][NextRuns]_vars

\* ------------------------------------------------------- what the run is given

\* The pages the listing call returns for source s.
PagesOf(s) == remote[config.databases[s].databaseId.db]

\* The dash-less identifiers of all pages of all configured sources.
EnumeratedIds ==
    UNION { { StripDashes(PagesOf(s)[n].id) : n \in 1..Len(PagesOf(s)) } :
              s \in Sources }

\* The output directory source s is configured with.
OutDir(s) == config.databases[s].srcDir

\* The names of the Markdown files right in directory d on files.
MdFilesIn(files, d) ==
    { f.name : f \in { g \in files : g.dir = d /\ g.name.ext = "md" } }

\* The names `${slug}.md` of the pages listed for source s.
SlugFiles(s) ==
    { MdName(buildSlug(PagesOf(s)[n], DefaultSlugConf)) : n \in 1..Len(PagesOf(s)) }

\* Pass 2 has left a trace: a conversion, a download, a file or directory
\* written, created or removed, a result pushed.
Pass2Acted ==
    \/ \E c \in calls : c.op = "convert"
    \/ imgLog # <<>>
    \/ writes # <<>>
    \/ results # <<>>
    \/ disk # disk0
    \/ dirs # { f.dir : f \in DOMAIN disk0 }

\* pageMap as the first loop leaves it when it runs over every source.
FullMap ==
    LET m[k \in 0..Len(config.databases)] ==
            IF k = 0 THEN EmptyMap
            ELSE MapWithPages(m[k - 1], PagesOf(k),
                              detectDbConfig(config.databases[k]))
    IN  m[Len(config.databases)]

\* ------------------------------------------------------------------ the claims

\* C1: whenever a page is written, every non-image link of its converted
\* body that points at the remote URL of a page of a configured source has
\* become, at its place, a link to that page's permalink, and the raw remote
\* URL occurs nowhere in the written body.
C1_LinksToPagesResolved ==
    \A n \in 1..Len(writes) :
      writes[n].conv = "ok" =>
        \A k \in 1..Len(writes[n].remoteBody) :
          LET e == writes[n].remoteBody[k]
              body == writes[n].content.body
          IN  (~e.img /\ e.url.kind = "page" /\ e.url.id \in EnumeratedIds) =>
                /\ body[k] = Link(e.alt, pageMap[e.url.id])
                /\ \A x \in 1..Len(body) : body[x].url # e.url

\* C2: pass 2 does nothing for any source (no conversion, no download, no
\* file or directory touched, no result) before pass 1 has fetched the
\* metadata and the listing of every configured source without error and has
\* put every listed page into pageMap.
C2_Pass1BeforePass2 ==
    Pass2Acted =>
      \A s \in Sources :
        /\ [op |-> "meta", src |-> s, pg |-> 0] \in calls
        /\ [op |-> "list", src |-> s, pg |-> 0] \in calls
        /\ \A n \in 1..Len(PagesOf(s)) :
              StripDashes(PagesOf(s)[n].id) \in DOMAIN pageMap
        /\ failure \notin {"config", "meta", "list"}

\* A page of the first of two sources has been written.
C2_Witness ==
    /\ Len(config.databases) = 2
    /\ writes # <<>>
    /\ writes[1].src = 1
    /\ Pass2Acted

Unshared(s) ==
    \A t \in Sources \ {s} :
        /\ OutDir(t) # OutDir(s)
        /\ config.databases[t].databaseId.db # config.databases[s].databaseId.db

C4_SameBytesOnePath ==
    \A a \in 1..Len(imgLog), b \in 1..Len(imgLog) :
      ( /\ imgLog[a].url # imgLog[b].url
        /\ ContentHash(imgLog[a].url) = ContentHash(imgLog[b].url)
        /\ imgLog[a].ret.kind = "local"
        /\ imgLog[b].ret.kind = "local" ) =>
          /\ imgLog[a].ret = imgLog[b].ret
          /\ ~(imgLog[a].net /\ imgLog[b].net)

\* C5: a call of saveNotionImage for a locator an earlier call of the run
\* was made for returns what the first call returned and downloads nothing.
C5_RepeatedLookupIsHit ==
    \A a \in 1..Len(imgLog), b \in 1..Len(imgLog) :
      (a < b /\ imgLog[a].url = imgLog[b].url) =>
          /\ imgLog[b].ret = imgLog[a].ret
          /\ ~imgLog[b].net

\* C5, amended: a call of saveNotionImage for a locator for which an earlier
\* call of the run returned a local path returns that same path, whatever
\* its page slug, index and directory, and starts no download.
C5_LookupAfterSuccessIsHit ==
    \A a \in 1..Len(imgLog), b \in 1..Len(imgLog) :
      (a < b /\ imgLog[a].url = imgLog[b].url /\ imgLog[a].ret.kind = "local") =>
          /\ imgLog[b].ret = imgLog[a].ret
          /\ ~imgLog[b].net
          /\ imgLog[b].out = "hit"

\* A locator downloaded for one page is asked for again by a page with
\* another slug.
C5_Witness ==
    \E a \in 1..Len(imgLog), b \in 1..Len(imgLog) :
      /\ a < b
      /\ imgLog[a].url = imgLog[b].url
      /\ imgLog[a].ret.kind = "local"
      /\ imgLog[a].slug # imgLog[b].slug
      /\ imgLog[b].out = "hit"

\* C6: a failing conversion of a page never makes the run fail: the page is
\* written with its front matter and an empty body, and a run that returns
\* has written every page of every source and pushed a result per source.
C6_ConversionFailureSkipsBody ==
    /\ failure # "convert"
    /\ \A n \in 1..Len(writes) :
         writes[n].conv = "fail" =>
           /\ writes[n].content.body = <<>>
           /\ writes[n].content.front.notionPageId = writes[n].id
           /\ writes[n].content.front.layout # ""
           /\ writes[n].content.front.permalink = pageMap[StripDashes(writes[n].id)]
    /\ phase = "done" =>
         /\ Len(results) = Len(config.databases)
         /\ \A s \in Sources : \A p \in 1..Len(PagesOf(s)) :
               \E n \in 1..Len(writes) : writes[n].src = s /\ writes[n].pg = p

\* The run has returned although the conversion of a page failed, and pages
\* were written after that page.
C6_Witness ==
    /\ phase = "done"
    /\ \E n \in 1..Len(writes) :
         /\ writes[n].conv = "fail"
         /\ n < Len(writes)
         /\ writes[n].content.body = <<>>

\* C7: a download that fails makes saveNotionImage return the locator it
\* was given, and the page is written with that locator as the reference of
\* the image: as cover, as icon, or as an image of the body.
C7_FailedDownloadKeepsLocator ==
    /\ \A n \in 1..Len(imgLog) :
         imgLog[n].out \in {"http", "error"} => imgLog[n].ret = imgLog[n].url
    /\ \A n \in 1..Len(writes) :
         LET w == writes[n]
             page == PagesOf(w.src)[w.pg]
         IN  /\ w.content.front.coverImage.kind # "local" =>
                   w.content.front.coverImage = page.cover
             /\ w.content.front.iconImage.kind # "local" =>
                   w.content.front.iconImage = page.icon
             /\ \A k \in w.failedAt :
                   \E x \in 1..Len(w.content.body) :
                      /\ w.content.body[x].img
                      /\ w.content.body[x].url = w.remoteBody[k].url

\* C8: when the metadata or the listing call of a source fails, the run
\* fails with pass 2 never begun: no file or directory is written, cleaned or
\* removed, nothing is converted or downloaded, no result is pushed.
C8_Pass1FailureTouchesNothing ==
    failure \in {"meta", "list"} =>
      /\ phase = "failed"
      /\ ~Pass2Acted
      /\ imageCache = EmptyMap

\* The listing call of the second source failed after the first source was
\* enumerated.
C8_Witness ==
    /\ failure = "list"
    /\ i = 2
    /\ [op |-> "list", src |-> 1, pg |-> 0] \in calls
    /\ phase = "failed"

\* Source s lacks a required field.
LacksField(s) ==
    \/ config.databases[s].databaseId.form = "missing"
    \/ config.databases[s].srcDir = ""
    \/ config.databases[s].basePath = ""
    \/ config.databases[s].layout = ""

\* The run has touched no file and no directory, converted and downloaded
\* nothing and pushed no result.
Untouched ==
    /\ disk = disk0
    /\ dirs = { f.dir : f \in DOMAIN disk0 }
    /\ writes = <<>>
    /\ imgLog = <<>>
    /\ results = <<>>

\* C9: when a source lacks a required field or config.databases is not an
\* array, no remote call is ever made for any source and no file is written
\* or deleted.
C9_NoRemoteCallOnBadConfig ==
    (~config.isArray \/ \E s \in Sources : LacksField(s)) =>
      /\ calls = {}
      /\ Untouched

\* C9, amended: when config.databases is not an array the run fails with no
\* remote call made; when a source lacks a required field the run fails in
\* pass 1 at the first such source at the latest, with no file or directory
\* touched, and the only remote calls made are the metadata and listing
\* calls of the sources before it and, unless the missing field is the
\* database identifier, the metadata call of that source.
C9_BadConfigFailsInPass1 ==
    /\ ~config.isArray =>
         /\ calls = {}
         /\ Untouched
         /\ phase \in {"idle", "failed"}
    /\ (\E s \in Sources : LacksField(s)) =>
         LET o == CHOOSE s \in Sources :
                     LacksField(s) /\ \A t \in Sources : LacksField(t) => s <= t
         IN  /\ Untouched
             /\ phase \in {"idle", "pass1", "failed"}
             /\ phase = "failed" => i <= o
             /\ failure = "config" => (phase = "failed" /\ i = o)
             /\ (phase = "failed" /\ faults = 0) => failure = "config"
             /\ \A c \in calls :
                   \/ c.src < o /\ c.op \in {"meta", "list"}
                   \/ /\ c.src = o
                      /\ c.op = "meta"
                      /\ config.databases[o].databaseId.form # "missing"

\* The run failed at a second source without output directory, after the
\* calls for the first source and the metadata call for the second.
C9_Witness ==
    /\ failure = "config"
    /\ phase = "failed"
    /\ i = 2
    /\ config.databases[2].srcDir = ""
    /\ calls = { [op |-> "meta", src |-> 1, pg |-> 0],
                 [op |-> "list", src |-> 1, pg |-> 0],
                 [op |-> "meta", src |-> 2, pg |-> 0] }

\* C10: a failing write or delete in pass 2 does not end the run: the
\* sources after the failing one are still processed and a result list is
\* returned.
C10_FsErrorConfined ==
    failure = "fs" => phase \in {"pass2", "done"}

\* C10, amended: a failing write or delete in pass 2 makes the run fail at
\* once: no result list is returned, results holds only the sources
\* completed before the failing one, no page after the failing point and no
\* later source is processed; pageMap is as pass 1 left it.
C10_FsErrorEndsRun ==
    failure = "fs" =>
      /\ phase = "failed"
      /\ pageMap = FullMap
      /\ Len(results) = i - 1
      /\ \A n \in 1..Len(writes) :
            \/ writes[n].src < i
            \/ writes[n].src = i /\ writes[n].pg < j
      /\ \A c \in calls :
            c.op = "convert" => (c.src < i \/ (c.src = i /\ c.pg <= j))

\* The write of the second page of the first of two sources failed.
C10_Witness ==
    /\ failure = "fs"
    /\ Len(config.databases) = 2
    /\ i = 1
    /\ j = 2
    /\ Len(writes) = 1

\* The paths of the Markdown files writePage wrote in the iteration of the
\* second loop for source s.
PagesWrittenFor(s) ==
    { writes[n].path : n \in { x \in 1..Len(writes) : writes[x].src = s } }

\* The paths of the files that came to exist on disk while the pages of
\* source s were written, other than the Markdown files: downloaded images
\* and temporary files left behind.
OtherFilesWrittenFor(s) ==
    UNION { writes[n].newFiles : n \in { x \in 1..Len(writes) : writes[x].src = s } }

\* The paths unlinked in the iteration of the second loop for source s.
RemovedFor(s) ==
    UNION { removed[n].files : n \in { x \in 1..Len(removed) : removed[x].src = s } }

FilesIn(files, d) == { f \in DOMAIN files : f.dir = d }

\* C12: when a call that returned is followed by another call that returns,
\* with the same configuration and remote snapshot and no failure anywhere,
\* every output directory holds after the later call the files it held after
\* the earlier one, each Markdown file with the same front matter and body,
\* whichever the cleaning policy and whether or not the process is the same.
C12_RerunIsIdempotent ==
    (run > 1 /\ phase = "done" /\ prev.returned /\ faults = 0) =>
      \A s \in Sources :
        /\ FilesIn(disk, OutDir(s)) = FilesIn(prev.disk, OutDir(s))
        /\ \A f \in FilesIn(disk, OutDir(s)) :
              f.name.ext = "md" => disk[f] = prev.disk[f]

\* A second call has returned after it rewrote, for a source that cleans and
\* a source that does not, pages that link to other pages and hold images.
C12_Witness ==
    /\ run = 2
    /\ phase = "done"
    /\ prev.returned
    /\ faults = 0
    /\ config.databases[1].cleanBeforeSync
    /\ ~config.databases[2].cleanBeforeSync
    /\ Len(writes) = 3
    /\ \E n \in 1..Len(writes) :
         /\ writes[n].content.front.coverImage.kind = "local"
         /\ disk[writes[n].path] = writes[n].content
    /\ \E n \in 1..Len(writes) :
         \E k \in 1..Len(writes[n].content.body) :
            writes[n].content.body[k].url.kind = "perm"

\* A writePage loop that ignores excludeProperties.
SkipsPropertyNever(name, excludeProps) == FALSE

\* Whether the loop of writePage over page.properties passes over the
\* property called name: if (dbCfg.excludeProps.has(name)) continue;
SkipsProperty(name, excludeProps) == name \in excludeProps

\* Whether the loop sets a key for a property with the normalized value val:
\*   if (val !== null && val !== undefined && val !== "") front[name.trim()] = val
KeepsProperty(val) == val \notin {JsNull, JsStr(<<>>)}

\* The loop of writePage over Object.entries(page.properties): the keys it
\* sets in front (a later property overwrites an equal key), the values
\* extractPropValue returned, and whether one of the calls threw, which ends
\* the loop and writePage.
FrontFromProps(properties, excludeProps) ==
    LET EmptyFront == [x \in {} |-> JsNull]
        Step(a, e, r) ==
            CASE a.threw \/ SkipsProperty(e.name, excludeProps) -> a
              [] r.threw ->
                   [a EXCEPT !.threw = TRUE,
                             !.vals = Append(@, [prop |-> e.prop, res |-> r])]
              [] OTHER ->
                   [threw |-> FALSE,
                    front |->
                      IF KeepsProperty(r.val)
                      THEN [key \in (DOMAIN a.front) \cup {Trim(e.name)} |->
                              IF key = Trim(e.name) THEN r.val ELSE a.front[key]]
                      ELSE a.front,
                    vals |-> Append(a.vals, [prop |-> e.prop, res |-> r])]
        looped[k \in 0..Len(properties)] ==
            IF k = 0 THEN [threw |-> FALSE, front |-> EmptyFront, vals |-> <<>>]
            ELSE Step(looped[k - 1], properties[k],
                      extractPropValue(properties[k].prop))
    IN  looped[Len(properties)]

\* The keys writePage sets in front before anything else.
LayoutKey == <<"l", "a", "y", "o", "u", "t">>

TitleKey == <<"t", "i", "t", "l", "e">>

PermalinkKey == <<"p", "e", "r", "m", "a", "l", "i", "n", "k">>

PageIdKey == <<"n", "o", "t", "i", "o", "n", "P", "a", "g", "e", "I", "d">>

\* The front object of writePage before the cover and the icon:
\*   { layout, title, permalink, notionPageId, ...dbCfg.fmExtras }
\* and then the keys the loop over the properties sets; a key set later
\* replaces an equal key set before.
FrontOfPage(dbCfg, fmExtras, excludeProps, page) ==
    LET slug == buildSlug(page, dbCfg.slugConf)
        title == IF getFirstTitleText(page) # <<>> THEN getFirstTitleText(page)
                 ELSE slug
        own == [key \in {LayoutKey, TitleKey, PermalinkKey, PageIdKey} |->
                  CASE key = LayoutKey -> JsStr(<<dbCfg.layout>>)
                    [] key = TitleKey -> JsStr(title)
                    [] key = PermalinkKey ->
                         renderPermalink(dbCfg.permalinkTpl, slug)
                    [] OTHER -> JsStr(page.id)]
        spread == [key \in (DOMAIN own) \cup (DOMAIN fmExtras) |->
                     IF key \in DOMAIN fmExtras THEN fmExtras[key] ELSE own[key]]
        loop == FrontFromProps(page.properties, excludeProps)
    IN  [threw |-> loop.threw,
         front |-> [key \in (DOMAIN spread) \cup (DOMAIN loop.front) |->
                      IF key \in DOMAIN loop.front THEN loop.front[key]
                      ELSE spread[key]]]

\* dbConf.frontMatter: absent, a key of its own, or the key permalink.
FrontMatterSets ==
    { [x \in {} |-> JsNull],
      [x \in {<<"x">>} |-> JsStr(<<"y">>)],
      [x \in {PermalinkKey} |-> JsStr(<<"/", "x">>)] }

\* Property names: "a", " a", "b" and "permalink".
PropNames == { <<"a">>, <<" ", "a">>, <<"b">>, PermalinkKey }

\* The second property of the pages below.
SecondProps ==
    { Prop("select", "object", "", <<"n">>, <<>>),
      Prop("multi_select", "list", "", <<>>, <<>>),
      Prop("rich_text", "list", "", <<>>, <<"blank">>) }

\* page.properties of the pages the loop is applied to: two properties, the
\* first any property value, with distinct names.
PropPages ==
    { << [name |-> n1, prop |-> p1], [name |-> <<"b">>, prop |-> p2] >> :
        n1 \in PropNames \ {<<"b">>}, p1 \in PropSet, p2 \in SecondProps }

ExcludeSets == { {}, {<<"a">>}, {<<"b">>} }

\* ------------------------------------------------- functions applied on their own

\* The page the loop is applied to: page a-1, titled "A b", with properties.
PropsPage(properties) ==
    [id |-> P1Id, title |-> <<"A", " ", "b">>, cover |-> NoUrl, icon |-> NoUrl,
     body |-> <<>>, properties |-> properties]

\* The loop of writePage over the properties is about to be applied.
InitProps ==
    /\ config = [databases |-> << DefaultConf("db1") >>, isArray |-> TRUE]
    /\ remote = Snapshot(<<>>)
    /\ \E properties \in PropPages, excludeProps \in ExcludeSets,
          fmExtras \in FrontMatterSets :
         pure = [fn |-> "props", properties |-> properties,
                 excludeProps |-> excludeProps, fmExtras |-> fmExtras,
                 done |-> FALSE,
                 out |-> FrontFromProps(<<>>, {}),
                 front |-> [x \in {} |-> JsNull]]
    /\ InitCall

\* The loop of writePage over the properties, applied.
CollectFrontMatter ==
    /\ pure.fn = "props"
    /\ ~pure.done
    /\ \E r \in { FrontFromProps(pure.properties, pure.excludeProps) },
          f \in { FrontOfPage(detectDbConfig(config.databases[1]),
                              pure.fmExtras, pure.excludeProps,
                              PropsPage(pure.properties)) } :
         pure' = [pure EXCEPT !.done = TRUE, !.out = r, !.front = f.front]
    /\ UNCHANGED << config, remote, disk, disk0, dirs, imageCache, pageMap,
                    allDbPages, results, phase, i, j, deletedFiles,
                    writtenFiles, failure, faults, calls, imgLog, writes,
                    removed, run, prev >>

\* A page with properties, for buildSlug.
SlugPage(id, title, properties) ==
    [id |-> id, title |-> title, cover |-> NoUrl, icon |-> NoUrl, body |-> <<>>,
     properties |-> properties]

\* Titles: none, blank, plain, punctuation only, punctuation and a letter,
\* a dash.
SlugTitles ==
    { <<>>, <<" ">>, <<"A", " ", "b">>, <<"?">>, <<"?", "c">>, <<"-">> }

\* What the property "a" of the page holds, for the slug rule from: "a".
SlugProps ==
    { Prop("rich_text", "list", "", <<>>, <<"text", "text">>),
      Prop("rich_text", "list", "", <<>>, <<"blank">>),
      Prop("select", "absent", "", <<>>, <<>>),
      Prop("url", "scalar", "", <<"?">>, <<>>),
      Prop("number", "scalar", "", <<"1">>, <<>>),
      Prop("checkbox", "scalar", "", <<"f">>, <<>>),
      Prop("multi_select", "list", "", <<>>, <<"named", "named">>),
      Prop("multi_select", "list", "", <<>>, <<>>),
      Prop("files", "list", "", <<>>, <<"fileNoInner">>) }

\* The slug rules: from the title, the id or the property "a"; either
\* fallback; lower set or not.
SlugConfs ==
    { [from |-> f, fallback |-> b, lower |-> l] :
        f \in {"title", "id", "a"}, b \in {"id", "title"}, l \in BOOLEAN }

\* buildSlug is about to be applied.
InitSlug ==
    /\ config = [databases |-> << DefaultConf("db1") >>, isArray |-> TRUE]
    /\ remote = Snapshot(<<>>)
    /\ \E id \in {P1Id, <<"B", "2">>}, title \in SlugTitles, p \in SlugProps,
          has \in BOOLEAN, slugConf \in SlugConfs :
         pure = [fn |-> "slug",
                 page |-> SlugPage(id, title,
                                   IF has THEN << [name |-> <<"a">>, prop |-> p] >>
                                   ELSE <<>>),
                 slugConf |-> slugConf, done |-> FALSE,
                 out |-> [threw |-> FALSE, slug |-> <<>>, again |-> <<>>]]
    /\ InitCall

\* buildSlug, applied twice to the same arguments.
ComputeSlug ==
    /\ pure.fn = "slug"
    /\ ~pure.done
    /\ pure' = [pure EXCEPT
                  !.done = TRUE,
                  !.out = IF buildSlugThrows(pure.page, pure.slugConf)
                          THEN [threw |-> TRUE, slug |-> <<>>, again |-> <<>>]
                          ELSE [threw |-> FALSE,
                                slug |-> buildSlug(pure.page, pure.slugConf),
                                again |-> buildSlug(pure.page, pure.slugConf)]]
    /\ UNCHANGED << config, remote, disk, disk0, dirs, imageCache, pageMap,
                    allDbPages, results, phase, i, j, deletedFiles,
                    writtenFiles, failure, faults, calls, imgLog, writes,
                    removed, run, prev >>

\* The second element of the rollup arrays below.
SecondElements ==
    { Prop("number", "scalar", "", <<"1">>, <<>>),
      Prop("number", "absent", "", <<>>, <<>>) }

\* normalizeRollup is about to be applied to an array of two elements, the
\* first any property value.
InitRollup ==
    /\ config = [databases |-> << DefaultConf("db1") >>, isArray |-> TRUE]
    /\ remote = Snapshot(<<>>)
    /\ \E el \in PropSet, second \in SecondElements :
         pure = [fn |-> "rollup", array |-> << el, second >>, done |-> FALSE,
                 elements |-> <<>>, out |-> Returned(JsNull)]
    /\ InitCall

\* normalizeRollup, applied: what the callback yields for each element and
\* what the function returns.
RollUp ==
    /\ pure.fn = "rollup"
    /\ ~pure.done
    /\ pure' = [pure EXCEPT
                  !.done = TRUE,
                  !.elements = [n \in 1..Len(pure.array) |->
                                  RollupElement(pure.array[n])],
                  !.out = RollupArray(pure.array)]
    /\ UNCHANGED << config, remote, disk, disk0, dirs, imageCache, pageMap,
                    allDbPages, results, phase, i, j, deletedFiles,
                    writtenFiles, failure, faults, calls, imgLog, writes,
                    removed, run, prev >>

\* What notion.databases.query answers for a database that lists `listing`
\* and serves pageSize pages a response. A cursor is the position of the
\* next page; 0 stands for no cursor (undefined in a request, null in a
\* response).
QueryResponse(listing, pageSize, start_cursor) ==
    LET from == IF start_cursor = 0 THEN 1 ELSE start_cursor
        to == IF from + pageSize - 1 < Len(listing) THEN from + pageSize - 1
              ELSE Len(listing)
    IN  [results |-> SubSeq(listing, from, to),
         has_more |-> to < Len(listing),
         next_cursor |-> IF to < Len(listing) THEN to + 1 ELSE 0]

\* A loop that keeps only what the last response held.
PushAllReplacing(pushed, resp) == resp.results

\* results.push(...resp.results)
PushAll(pushed, resp) == pushed \o resp.results

\* fetchAllPages is about to be applied to a database that lists the pages
\* 1..n: results = [], hasMore = true, start_cursor = undefined.
InitFetch ==
    /\ config = [databases |-> << DefaultConf("db1") >>, isArray |-> TRUE]
    /\ remote = Snapshot(<<>>)
    /\ \E n \in 0..MaxListed, pageSize \in 1..MaxPageSize :
         pure = [fn |-> "fetch", listing |-> [k \in 1..n |-> k],
                 pageSize |-> pageSize, results |-> <<>>, hasMore |-> TRUE,
                 start_cursor |-> 0, requests |-> <<>>, responses |-> <<>>,
                 inflight |-> 0, pc |-> "test", out |-> <<>>]
    /\ InitCall

\* while (hasMore) { ... notion.databases.query({database_id, start_cursor})
\* is called; the function awaits the answer.
SendQuery ==
    /\ pure.fn = "fetch"
    /\ pure.pc = "test"
    /\ pure.hasMore
    /\ pure' = [pure EXCEPT !.requests = Append(@, pure.start_cursor),
                            !.inflight = @ + 1,
                            !.pc = "await"]
    /\ UNCHANGED << config, remote, disk, disk0, dirs, imageCache, pageMap,
                    allDbPages, results, phase, i, j, deletedFiles,
                    writtenFiles, failure, faults, calls, imgLog, writes,
                    removed, run, prev >>

\* The call ends: with a response, whose results are pushed and whose
\* has_more and next_cursor are kept, or with an error, which leaves
\* fetchAllPages.
ReceiveResponse ==
    /\ pure.fn = "fetch"
    /\ pure.pc = "await"
    /\ \E ok \in BOOLEAN :
         \E resp \in { QueryResponse(pure.listing, pure.pageSize,
                                     pure.requests[Len(pure.requests)]) } :
           pure' = IF ok
                   THEN [pure EXCEPT !.results = PushAll(@, resp),
                                     !.hasMore = resp.has_more,
                                     !.start_cursor = resp.next_cursor,
                                     !.responses = Append(@, resp),
                                     !.inflight = @ - 1,
                                     !.pc = "test"]
                   ELSE [pure EXCEPT !.inflight = @ - 1, !.pc = "threw"]
    /\ UNCHANGED << config, remote, disk, disk0, dirs, imageCache, pageMap,
                    allDbPages, results, phase, i, j, deletedFiles,
                    writtenFiles, failure, faults, calls, imgLog, writes,
                    removed, run, prev >>

\* hasMore is false: return results.
ReturnPages ==
    /\ pure.fn = "fetch"
    /\ pure.pc = "test"
    /\ ~pure.hasMore
    /\ pure' = [pure EXCEPT !.pc = "returned", !.out = pure.results]
    /\ UNCHANGED << config, remote, disk, disk0, dirs, imageCache, pageMap,
                    allDbPages, results, phase, i, j, deletedFiles,
                    writtenFiles, failure, faults, calls, imgLog, writes,
                    removed, run, prev >>

InitPure == InitProps \/ InitSlug \/ InitRollup \/ InitFetch

NextPure ==
    \/ CollectFrontMatter
    \/ ComputeSlug
    \/ RollUp
    \/ SendQuery
    \/ ReceiveResponse
    \/ ReturnPages

SpecPure == InitPure /\ [][NextPure]_vars

\* C13: extractPropValue never throws, whatever the property value, and for
\* a value of unknown or missing type or with a malformed payload it returns
\* null; the loop over the properties of a page never throws either.
C13_NormalizationIsTotal ==
    (pure.fn = "props" /\ pure.done) =>
      /\ ~pure.out.threw
      /\ \A n \in 1..Len(pure.out.vals) :
           /\ ~pure.out.vals[n].res.threw
           /\ pure.out.vals[n].prop \in MalformedProps =>
                pure.out.vals[n].res.val = JsNull

C15_SlugNeverEmpty ==
    (pure.fn = "slug" /\ pure.done /\ pure.page.id # <<>>) =>
      /\ ~pure.out.threw
      /\ pure.out.slug # <<>>
      /\ pure.out.again = pure.out.slug

\* ------------------------------------------- the second loop in another order

\* The orders in which the second loop can visit the configured sources.
Orders ==
    { o \in [Sources -> Sources] : \A a, b \in Sources : a # b => o[a] # o[b] }

\* The head of an iteration of the second loop for source s when no unlink
\* fails: ensureDir twice and the cleaning. w holds the image state and the
\* results pushed so far.
SourceBegun(w, s) ==
    LET dbConf == config.databases[s]
        dbCfg == allDbPages[dbConf.databaseId].dbCfg
        mdTargets == IF dbCfg.cleanBeforeSync
                     THEN CleanTargets(DOMAIN w.st.disk, dbCfg.dir, TRUE)
                     ELSE {}
        imgTargets == IF dbCfg.cleanBeforeSync /\ dbConf.srcDirImages # ""
                      THEN CleanTargets((DOMAIN w.st.disk) \ mdTargets,
                                        dbCfg.imagesDir, FALSE)
                      ELSE {}
    IN  [st |-> [w.st EXCEPT
                   !.disk = [f \in (DOMAIN w.st.disk) \ (mdTargets \cup imgTargets)
                               |-> w.st.disk[f]],
                   !.dirs = @ \cup {dbCfg.dir, dbCfg.imagesDir}],
         results |-> w.results,
         deleted |-> mdTargets \cup imgTargets,
         written |-> {}]

\* One iteration of the inner loop when nothing fails: writePage for page
\* of the source with dbCfg and writtenFiles.add.
PageWritten(w, dbCfg, page) ==
    LET r == writePage(ImageState(w.st.cache, w.st.disk, w.st.dirs, w.st.log),
                       dbCfg, page, pageMap, "ok",
                       [n \in 1..MaxDownloads(page) |-> "ok"])
    IN  [w EXCEPT !.st = [r.st EXCEPT
                            !.disk = PutFile(@, r.outPath, r.content),
                            !.dirs = @ \cup {dbCfg.dir}],
                  !.written = @ \cup {r.outPath}]

\* One whole iteration of the second loop for source s when nothing fails.
SourceDone(w, s) ==
    LET entry == allDbPages[config.databases[s].databaseId]
        p[k \in 0..Len(entry.pages)] ==
            IF k = 0 THEN SourceBegun(w, s)
            ELSE PageWritten(p[k - 1], entry.dbCfg, entry.pages[k])
        end == p[Len(entry.pages)]
    IN  [st |-> end.st,
         results |-> [t \in (DOMAIN end.results) \cup {s} |->
                        IF t = s
                        THEN ResultOf(config.databases[s].databaseId, entry.pages,
                                      end.written, end.deleted)
                        ELSE end.results[t]]]

\* The second loop of exportNotionToSSG visiting the sources in the order o,
\* from the files and the image cache the call began with, when nothing
\* fails: the files, the image cache and each source's result at the end.
SecondLoop(o) ==
    LET start == [st |-> ImageState(prev.cache, disk0,
                                    { f.dir : f \in DOMAIN disk0 }, <<>>),
                  results |-> [t \in {} |-> {}]]
        v[k \in 0..Len(config.databases)] ==
            IF k = 0 THEN start ELSE SourceDone(v[k - 1], o[k])
    IN  v[Len(config.databases)]

\* The order the code visits the sources in.
ConfiguredOrder == [s \in Sources |-> s]

\* Every source's key is in allDbPages and no call has failed in this run.
SmoothRun ==
    /\ phase = "done"
    /\ failure = ""
    /\ \A n \in 1..Len(imgLog) : imgLog[n].out \in {"ok", "hit"}
    /\ \A n \in 1..Len(writes) : writes[n].conv = "ok"

\* C16: once a run in which nothing failed has returned, the files of every
\* directory and each source's result are what the second loop yields for
\* every order in which it can visit the configured sources.
C16_Pass2OrderIndependent ==
    SmoothRun =>
      \A o \in Orders :
        \E f \in { SecondLoop(o) } :
          /\ f.st.disk = disk
          /\ \A s \in Sources : f.results[s] = results[s]

\* C17: in every call of exportNotionToSSG a lookup of the image cache is
\* answered only from an entry the same call recorded (a hit follows a
\* successful download of the same locator in the same call), and pageMap
\* holds nothing when a call begins.
C17_CachesScopedToRun ==
    /\ \A n \in 1..Len(imgLog) :
          imgLog[n].out = "hit" =>
            \E m \in 1..(n - 1) :
                /\ imgLog[m].url = imgLog[n].url
                /\ imgLog[m].out = "ok"
    /\ phase \in {"idle", "pass1"} /\ i <= 1 => pageMap = EmptyMap

\* C18: whenever a page is written after a successful conversion, every
\* hosted image whose download succeeded and every link to a page of pageMap
\* is replaced at its own place in the body, and every other element of the
\* body is what the conversion yielded.
C18_ReplacementsAtOwnPosition ==
    \A n \in 1..Len(writes) :
      writes[n].conv = "ok" =>
        \A k \in 1..Len(writes[n].remoteBody) :
          LET e == writes[n].remoteBody[k]
              out == writes[n].content.body[k]
              id == NotionIdOfUrl(e.url)
          IN  CASE e.img /\ IsNotionHosted(e.url) ->
                     /\ out.img
                     /\ out.alt = e.alt
                     /\ (k \notin writes[n].failedAt => out.url.kind = "local")
                     /\ (k \in writes[n].failedAt => out = e)
                [] ~e.img /\ id # <<>> /\ id \in DOMAIN pageMap ->
                     out = Link(e.alt, pageMap[id])
                [] OTHER -> out = e

\* C19: the second loop never fails on the lookup of what pass 1 stored for
\* a source, and every page it writes for a source is a page listed for
\* that source, written to the source's own output directory with the
\* source's own permalink base.
C19_Pass2UsesOwnEntry ==
    /\ failure # "lookup"
    /\ \A n \in 1..Len(writes) :
          LET s == writes[n].src
          IN  /\ writes[n].pg <= Len(PagesOf(s))
              /\ writes[n].id = PagesOf(s)[writes[n].pg].id
              /\ writes[n].path.dir = OutDir(s)
              /\ writes[n].content.front.permalink.base = config.databases[s].basePath

\* The file a local image path names.
FileOfLocalPath(u) == FilePath(u.dir, ImageName(u.slug, u.idx, u.hash, u.ext))

\* The local image paths the Markdown content c holds: coverImage, iconImage
\* and the images of the body.
LocalPathsOf(c) ==
    { u \in {c.front.coverImage, c.front.iconImage}
              \cup { c.body[k].url : k \in { x \in 1..Len(c.body) : c.body[x].img } } :
        u.kind = "local" }

\* The Markdown files on disk that this call wrote.
WrittenOnDisk == { writes[n].path : n \in 1..Len(writes) } \cap DOMAIN disk

\* C20: once a call has returned, every local image path in a Markdown file
\* the call wrote names a file that is on disk.
C20_LocalImagesExist ==
    phase = "done" =>
      \A f \in WrittenOnDisk :
        \A u \in LocalPathsOf(disk[f]) : FileOfLocalPath(u) \in DOMAIN disk

\* C21: the cleaning at the head of an iteration of the second loop removes
\* no Markdown file that the same call wrote before for another source.
C21_CleaningSparesOtherSources ==
    \A k \in 1..Len(removed), n \in 1..Len(writes) :
        writes[n].src < removed[k].src => writes[n].path \notin removed[k].files

\* C22: a step never changes or removes an entry of pageMap within a call,
\* and once the second loop has begun a step leaves pageMap as it is.
C22_MapWriteOnce ==
    [][ /\ (phase \in {"pass2", "done", "failed"} /\ phase' # "idle") => pageMap' = pageMap
        /\ (phase = "pass1" /\ phase' # "idle") =>
              \A id \in DOMAIN pageMap :
                  id \in DOMAIN pageMap' /\ pageMap'[id] = pageMap[id] ]_vars

\* C23: within one source, pages with distinct identifiers are written to
\* distinct files, and every result pushed reports as many written files as
\* exported pages.
C23_OneFilePerPage ==
    /\ \A n \in 1..Len(writes), m \in 1..Len(writes) :
          (writes[n].src = writes[m].src /\ writes[n].id # writes[m].id) =>
             writes[n].path # writes[m].path
    /\ \A k \in 1..Len(results) :
          Cardinality(results[k].filesWritten) = results[k].pagesExported

\* C24: whatever properties the page carries and whatever dbConf.frontMatter
\* holds, the permalink in the front matter of a page is the permalink the
\* first loop stores for the page's identifier in pageMap.
C24_FrontPermalinkIsMapped ==
    (pure.fn = "props" /\ pure.done /\ ~pure.out.threw) =>
      pure.front[PermalinkKey] =
        MapWithPages(EmptyMap, << PropsPage(pure.properties) >>,
                     detectDbConfig(config.databases[1]))[StripDashes(P1Id)]

\* C25: for every element of a rollup array the callback of normalizeRollup
\* yields what extractPropValue yields for a property of that variant, and
\* null for an element of unknown type; nothing throws, and the function
\* returns the values that are not null, in order.
C25_RollupElementsLikeProperties ==
    (pure.fn = "rollup" /\ pure.done) =>
      /\ ~pure.out.threw
      /\ \A n \in 1..Len(pure.array) :
           /\ pure.array[n] \in SupportedProps =>
                pure.elements[n] = extractPropValue(pure.array[n])
           /\ pure.array[n].type \in {"", "created_time", "unique_id"} =>
                pure.elements[n] = Returned(JsNull)
      /\ \A n \in 1..Len(pure.out.val.items) :
           pure.out.val.items[n] # JsNull

\* The files clean-first is to remove for source s from the files on disk:
\* the Markdown files right in the source's output directory and, when the
\* source names an image directory of its own, the files right in it;
\* nothing when cleanBeforeSync is false.
ToBeCleaned(s, files) ==
    IF config.databases[s].cleanBeforeSync = FALSE THEN {}
    ELSE { f \in files : f.dir = OutDir(s) /\ f.name.ext = "md" }
         \cup (IF config.databases[s].srcDirImages # ""
               THEN { f \in files : f.dir = config.databases[s].srcDirImages }
               ELSE {})

\* C26: the step that begins a source's iteration of the second loop and
\* does not fail removes exactly the files clean-first is to remove for that
\* source and leaves every other file as it is, and a page of the source
\* is written only after that step.
C26_CleanFirst ==
    [][ /\ (phase = "pass2" /\ j = 0 /\ j' = 1) =>
              /\ (DOMAIN disk) \ (DOMAIN disk') = ToBeCleaned(i, DOMAIN disk)
              /\ DOMAIN disk' \subseteq DOMAIN disk
              /\ \A f \in DOMAIN disk' : disk'[f] = disk[f]
        /\ (writes' # writes /\ phase' # "idle") => j >= 1 ]_vars

\* C30: no temporary download file is on disk once saveNotionImage has
\* returned, however the download ended.
C30_NoTempFileLeft ==
    \A f \in DOMAIN disk : f.name.k # "temp"

\* The concatenation of the results of the first n responses.
ResultsUpTo(responses, n) ==
    LET cat[k \in 0..n] ==
            IF k = 0 THEN <<>> ELSE cat[k - 1] \o responses[k].results
    IN  cat[n]

\* C27: fetchAllPages has at most one listing request in flight; the first
\* request carries no cursor and each later one the next_cursor of the
\* response before it; no request follows a response whose has_more is
\* false; and what it returns is the concatenation of the results of all
\* responses in order, which is the listing, each page once.
C27_ListingInCursorOrder ==
    pure.fn = "fetch" =>
      /\ pure.inflight <= 1
      /\ \A n \in 1..Len(pure.requests) :
           /\ n = 1 => pure.requests[n] = 0
           /\ n > 1 => /\ pure.responses[n - 1].has_more
                       /\ pure.requests[n] = pure.responses[n - 1].next_cursor
      /\ pure.pc = "returned" =>
           /\ pure.responses # <<>>
           /\ ~pure.responses[Len(pure.responses)].has_more
           /\ pure.out = ResultsUpTo(pure.responses, Len(pure.responses))
           /\ pure.out = pure.listing

\* fetchAllPages has returned three pages it got in two responses, the
\* second asked for with the cursor of the first.
C27_Witness ==
    /\ pure.fn = "fetch"
    /\ pure.pc = "returned"
    /\ Len(pure.requests) = 2
    /\ pure.requests[2] = 3
    /\ pure.responses[1].has_more
    /\ pure.out = <<1, 2, 3>>

\* ------------------------------------------------------------- termination

\* The loop of fetchAllPages on its own.
NextFetch == SendQuery \/ ReceiveResponse \/ ReturnPages

\* exportNotionToSSG is between its call and its return or rejection and
\* awaits nothing that cannot settle: this is when an action of Next is
\* enabled.
Running == phase \in {"idle", "pass1", "pass2"}

\* A step of a running call to another position of its loops. Every step of
\* Next is such a step, and it is enabled exactly when Next is; fairness is
\* stated on it because TLC evaluates ENABLED Next by brute force.
Advance ==
    /\ Running
    /\ \E p \in {"pass1", "pass2", "done", "failed"},
          a \in 0..Len(config.databases),
          b \in 0..(Len(remote["db1"]) + 1) :
         /\ phase' = p
         /\ i' = a
         /\ j' = b

\* Of the calls of saveNotionImage that writePage makes for a page, those up
\* to its first download, when it makes one: the cache hits before it, then
\* the call that misses the cache.
CallsToFirstDownload(made) ==
    LET net == { k \in 1..Len(made) : made[k].net }
    IN  IF net = {} THEN <<>>
        ELSE SubSeq(made, 1, CHOOSE k \in net : \A g \in net : k <= g)

\* downloadImage when the connection is lost after the 200 response has
\* begun: the body stops, the response emits 'aborted' and 'close' and never
\* 'end', so pipe never ends the write stream and its 'finish' never fires;
\* the request emits no 'error' once it has a response and the file stream
\* has none. Neither resolve nor reject is called: saveNotionImage, writePage
\* and exportNotionToSSG await a promise that stays pending, with the
\* temporary file the write stream created on disk. Modelled for the first
\* download of a page.
AwaitDownload ==
    /\ phase = "pass2"
    /\ j >= 1
    /\ j <= Len(CurrentEntry.pages)
    /\ faults + 1 <= MaxFaults
    /\ \E r \in { writePage(ImageState(imageCache, disk, dirs, imgLog),
                             CurrentEntry.dbCfg, CurrentEntry.pages[j], pageMap,
                             "ok",
                             [n \in 1..MaxDownloads(CurrentEntry.pages[j]) |->
                                "ok"]) } :
       \E made \in { CallsToFirstDownload(
                        SubSeq(r.st.log, Len(imgLog) + 1, Len(r.st.log))) } :
         /\ made # <<>>
         /\ LET call == made[Len(made)]
                tempPath == FilePath(call.dir,
                                     TempName(call.idx,
                                              getImageExtension(call.url)))
            IN  /\ disk' = PutFile(disk, tempPath, NoContent)
                /\ dirs' = dirs \cup {call.dir}
                /\ imgLog' = imgLog \o SubSeq(made, 1, Len(made) - 1)
                                \o << ImageCall(call.url, call.slug, call.idx,
                                                call.dir, NoUrl, TRUE,
                                                "aborted") >>
                /\ calls' = calls \cup
                        (IF call.idx \in {"cover", "icon"} THEN {}
                         ELSE {[op |-> "convert", src |-> i, pg |-> j]})
    /\ faults' = faults + 1
    /\ phase' = "pending"
    /\ UNCHANGED << config, remote, disk0, imageCache, pageMap, allDbPages,
                    results, i, j, deletedFiles, writtenFiles, failure, writes,
                    removed, run, prev, pure >>

\* Every remote call returns or fails and the event loop runs whatever is
\* ready: a call of exportNotionToSSG, and a listing loop of the kind its
\* listing step stands for, keep taking their steps. The listing a database
\* serves is finite. A download may fail after its response has begun.
InitLive == Init \/ InitFetch

NextLive == Next \/ AwaitDownload \/ NextFetch

SpecLive ==
    /\ InitLive
    /\ [][NextLive]_vars
    /\ WF_<<phase, i, j>>(Advance)
    /\ WF_vars(NextFetch)

\* exportNotionToSSG has returned its results or has rejected, and a listing
\* loop has returned or thrown.
Terminated ==
    /\ phase \in {"done", "failed"}
    /\ pure.fn = "fetch" => pure.pc \in {"returned", "threw"}

\* What a call that has rejected leaves alone: it makes no remote call,
\* writes no file and removes none.
QuietOnceFailed ==
    [][ /\ phase \in {"done", "failed"} =>
             UNCHANGED << phase, results, failure >>
        /\ phase = "failed" =>
             UNCHANGED << calls, imgLog, writes, removed, disk, dirs,
                          imageCache >> ]_vars

\* C28: every call of exportNotionToSSG eventually ends, returned or
\* rejected, and every listing loop ends; from then on nothing changes, and
\* a call that has rejected makes no remote call, writes no file and
\* removes none.
C28_RunTerminates == <>Terminated /\ QuietOnceFailed

\* ------------------------------------------------ overlapping image requests

\* exportNotionToSSG is exported and async, and imageCache belongs to the
\* module: two calls in one process whose second loops overlap are two
\* page-processing tasks that call saveNotionImage on the same cache. Each
\* call of saveNotionImage runs up to its await in one step and from the
\* settled download to its return in another.
Tasks == {1, 2}

TaskSlugs == { <<"a">>, <<"c">> }

\* `temp-${Date.now()}-${imageIndex}.${ext}` with the clock reading now.
TempNameAt(now, idx, ext) == [TempName(idx, ext) EXCEPT !.hash = now]

\* One call of saveNotionImage per task, not yet begun.
InitTasks ==
    /\ config = [databases |-> << DefaultConf("db1") >>, isArray |-> TRUE]
    /\ remote = Snapshot(<<>>)
    /\ pure \in [fn : {"tasks"},
                 task : [Tasks -> [pc : {"called"}, url : {U1, U2},
                                   slug : TaskSlugs, idx : {"cover", "0"},
                                   dir : {DefaultImagesDir}, now : {""},
                                   ret : {NoUrl}, net : {FALSE},
                                   during : {{}}]]]
    /\ InitCall

\* saveNotionImage from its call to its first await: the cache is consulted,
\* and on a hit the function returns; on a miss ensureDir runs, the temporary
\* name is taken from the clock, downloadImage opens the write stream and
\* sends the request, and the function awaits. No entry is made in the cache
\* and nothing records that a download of the locator is under way.
BeginSave(t) ==
    /\ pure.fn = "tasks"
    /\ pure.task[t].pc = "called"
    /\ LET c == pure.task[t]
       IN  IF c.url \in DOMAIN imageCache
           THEN /\ pure' = [pure EXCEPT !.task[t].pc = "returned",
                                        !.task[t].ret = imageCache[c.url]]
                /\ imgLog' = Append(imgLog,
                                    ImageCall(c.url, c.slug, c.idx, c.dir,
                                              imageCache[c.url], FALSE, "hit"))
                /\ UNCHANGED << disk, dirs >>
           ELSE \E now \in {"t1", "t2"} :
                /\ pure' = [pure EXCEPT
                              !.task[t].pc = "await",
                              !.task[t].now = now,
                              !.task[t].net = TRUE,
                              !.task[t].during =
                                  { u \in Tasks : pure.task[u].pc = "await" }]
                /\ dirs' = dirs \cup {c.dir}
                /\ disk' = PutFile(disk,
                                   FilePath(c.dir,
                                            TempNameAt(now, c.idx,
                                                       getImageExtension(c.url))),
                                   NoContent)
                /\ UNCHANGED imgLog
    /\ UNCHANGED << config, remote, disk0, imageCache, pageMap, allDbPages,
                    results, phase, i, j, deletedFiles, writtenFiles, failure,
                    faults, calls, writes, removed, run, prev >>

\* saveNotionImage from the settled download to its return: on a 200 the
\* temporary file is dropped when the final name exists and renamed to it
\* otherwise, the cache entry is set and the local path returned; when the
\* download failed, or another call has already taken the temporary file away
\* (unlinkSync or renameSync throws), the catch returns imageUrl.
EndSave(t) ==
    /\ pure.fn = "tasks"
    /\ pure.task[t].pc = "await"
    /\ \E out \in DownloadOutcomes :
         LET c == pure.task[t]
             ext == getImageExtension(c.url)
             contentHash == ContentHash(c.url)
             tempPath == FilePath(c.dir, TempNameAt(c.now, c.idx, ext))
             finalPath == FilePath(c.dir,
                                   ImageName(c.slug, c.idx, contentHash, ext))
             relativePath == LocalImagePath(c.dir, c.slug, c.idx, contentHash,
                                            ext)
             saved == out = "ok" /\ tempPath \in DOMAIN disk
             ret == IF saved THEN relativePath ELSE c.url
         IN  /\ disk' = (IF tempPath \in DOMAIN disk
                         THEN DiskAfterDownload(disk, out, tempPath, finalPath)
                         ELSE disk)
             /\ imageCache' =
                  (IF saved
                   THEN [u \in (DOMAIN imageCache) \cup {c.url} |->
                           IF u = c.url THEN relativePath ELSE imageCache[u]]
                   ELSE imageCache)
             /\ imgLog' = Append(imgLog,
                                 ImageCall(c.url, c.slug, c.idx, c.dir, ret,
                                           TRUE, out))
             /\ pure' = [pure EXCEPT !.task[t].pc = "returned",
                                     !.task[t].ret = ret]
    /\ UNCHANGED << config, remote, disk0, dirs, pageMap, allDbPages, results,
                    phase, i, j, deletedFiles, writtenFiles, failure, faults,
                    calls, writes, removed, run, prev >>

NextTasks == \E t \in Tasks : BeginSave(t) \/ EndSave(t)

SpecTasks == InitTasks /\ [][NextTasks]_vars

\* C29: when two tasks ask for the same locator and one begins while the
\* other is still awaiting its download (before it has made its cache
\* entry), at most one of them downloads and both return the same local
\* path.
C29_OneDownloadPerLocator ==
    pure.fn = "tasks" =>
        \A t \in Tasks, u \in Tasks :
            ( /\ t # u
              /\ pure.task[t].pc = "returned"
              /\ pure.task[u].pc = "returned"
              /\ pure.task[t].url = pure.task[u].url
              /\ u \in pure.task[t].during )
            => /\ ~(pure.task[t].net /\ pure.task[u].net)
               /\ pure.task[t].ret = pure.task[u].ret

====
